---- MODULE Spec2Model ----
(***************************************************************************)
(* Game of Life Online: the authoritative board (server/src/game-logic),   *)
(* the tick loop and broadcasts of the WebSocket server, and the client's  *)
(* socket composable that mirrors the board from a snapshot plus deltas.   *)
(*                                                                         *)
(* A colour is the JavaScript string "#RRGGBB", modelled as the sequence   *)
(* of its 7 characters, so that parsing (parseInt(.., 16)) and formatting  *)
(* (toString(16).padStart(2, '0'), lower case) are computed and not        *)
(* assumed.  An empty cell holds null, modelled as the value Null.         *)
(***************************************************************************)
EXTENDS Integers, Sequences, FiniteSets, TLC

\* ------------------------------------------------------------------ bounds

\* The grid extent: 512 x 512 in the source, scaled down for checking.
BOARD_WIDTH == 3
BOARD_HEIGHT == 3
\* The tick timer is not allowed to fire past this generation.
MaxGeneration == 2
\* The number of draw submissions accepted in one behaviour.
MaxDraws == 1
\* The resolver is exercised on neighbourhoods with at most this many live cells.
MaxLiveNeighbors == 7
\* The number of browser clients.
NumClients == 1
\* The number of sockets the WebSocket server may hold; the browser clients use
\* the first NumClients of them.
NumSockets == 2
\* The number of client.send calls that are allowed to throw in one behaviour.
MaxSendErrors == 1
\* The longest cells array of the draw submissions of the board store.
MaxBatch == 2

\* ------------------------------------------------------------- colours

Null == <<"null">>

Black == <<"#", "0", "0", "0", "0", "0", "0">>
White == <<"#", "F", "F", "F", "F", "F", "F">>
Red   == <<"#", "F", "F", "0", "0", "0", "0">>
Blue  == <<"#", "0", "0", "0", "0", "F", "F">>

\* The colours clients draw with.
Palette == {Black, White, Red}

\* JavaScript truthiness of a board cell: null is falsy, "#RRGGBB" is truthy.
Truthy(v) == v # Null

Xs == 0..(BOARD_WIDTH - 1)
Ys == 0..(BOARD_HEIGHT - 1)
Positions == Xs \X Ys

\* let board = Array.from({length: BOARD_HEIGHT}, () => Array(BOARD_WIDTH).fill(null))
EmptyBoard == [y \in Ys |-> [x \in Xs |-> Null]]

\* ---------------------------------------------------------- hex strings

\* Number.prototype.toString(16) digits (lower case).
HexDigits == <<"0", "1", "2", "3", "4", "5", "6", "7",
               "8", "9", "a", "b", "c", "d", "e", "f">>

\* The value parseInt gives one hex digit, upper or lower case.
HexValue(ch) ==
    CASE ch = "0" -> 0 [] ch = "1" -> 1 [] ch = "2" -> 2 [] ch = "3" -> 3
      [] ch = "4" -> 4 [] ch = "5" -> 5 [] ch = "6" -> 6 [] ch = "7" -> 7
      [] ch = "8" -> 8 [] ch = "9" -> 9
      [] ch \in {"a", "A"} -> 10 [] ch \in {"b", "B"} -> 11
      [] ch \in {"c", "C"} -> 12 [] ch \in {"d", "D"} -> 13
      [] ch \in {"e", "E"} -> 14 [] ch \in {"f", "F"} -> 15

\* parseInt(hex.slice(from - 1, from + 1), 16) for the two digits at from, from + 1
\* (1-based positions in the string).
parseInt16(hex, from) == 16 * HexValue(hex[from]) + HexValue(hex[from + 1])

\* Mutant of toHex: no padStart, so that a value below 16 gives one digit.
toHex_noPad(c) ==
    IF c < 16 THEN <<HexDigits[c + 1]>>
    ELSE <<HexDigits[(c \div 16) + 1], HexDigits[(c % 16) + 1]>>

\* const toHex = (c) => c.toString(16).padStart(2, '0'), for 0 <= c <= 255
toHex(c) == <<HexDigits[(c \div 16) + 1], HexDigits[(c % 16) + 1]>>

\* Mutant of MathRound: Math.floor in place of Math.round.
MathRound_floor(total, n) == total \div n

\* Math.round(total / n) for total >= 0, n > 0: halves round up.
MathRound(total, n) == (2 * total + n) \div (2 * n)

RECURSIVE SumChannel(_, _)
SumChannel(colors, from) ==
    IF colors = <<>> THEN 0
    ELSE parseInt16(Head(colors), from) + SumChannel(Tail(colors), from)

\* Mutant of averageColors: the empty list falls back to black.
averageColors_blackFallback(colors) ==
    IF Len(colors) = 0 THEN Black
    ELSE <<"#">> \o toHex(MathRound(SumChannel(colors, 2), Len(colors)))
                 \o toHex(MathRound(SumChannel(colors, 4), Len(colors)))
                 \o toHex(MathRound(SumChannel(colors, 6), Len(colors)))

\* averageColors(colors)
averageColors(colors) ==
    IF Len(colors) = 0 THEN White
    ELSE LET avgR == MathRound(SumChannel(colors, 2), Len(colors))
             avgG == MathRound(SumChannel(colors, 4), Len(colors))
             avgB == MathRound(SumChannel(colors, 6), Len(colors))
         IN  <<"#">> \o toHex(avgR) \o toHex(avgG) \o toHex(avgB)

\* ------------------------------------------------------------- resolver

\* The (dx, dy) pairs in the order of the loops: dy outer, dx inner, (0, 0) skipped.
NeighborOffsets ==
    << <<-1, -1>>, <<0, -1>>, <<1, -1>>,
       <<-1, 0>>,             <<1, 0>>,
       <<-1, 1>>,  <<0, 1>>,  <<1, 1>> >>

InBounds(nx, ny) == nx >= 0 /\ nx < BOARD_WIDTH /\ ny >= 0 /\ ny < BOARD_HEIGHT

\* Mutant of getLiveNeighbors: the grid wraps around at its edges.
getLiveNeighbors_wraps(b, x, y) ==
    LET wx(o) == (x + o[1] + BOARD_WIDTH) % BOARD_WIDTH
        wy(o) == (y + o[2] + BOARD_HEIGHT) % BOARD_HEIGHT
        live(o) == Truthy(b[wy(o)][wx(o)])
        kept == SelectSeq(NeighborOffsets, live)
    IN  [i \in 1..Len(kept) |-> b[wy(kept[i])][wx(kept[i])]]

\* getLiveNeighbors(x, y): the colours of the live in-bounds neighbours, in loop order.
getLiveNeighbors(b, x, y) ==
    LET live(o) == InBounds(x + o[1], y + o[2]) /\ Truthy(b[y + o[2]][x + o[1]])
        kept == SelectSeq(NeighborOffsets, live)
    IN  [i \in 1..Len(kept) |-> b[y + kept[i][2]][x + kept[i][1]]]

\* How often colour c occurs in the list.
CountOf(colors, c) == Cardinality({i \in 1..Len(colors) : colors[i] = c})

\* The keys of the Map colorCounts in insertion order: each distinct colour at the
\* place of its first occurrence.
MapKeys(colors) ==
    LET first(i) == \A j \in 1..(i - 1) : colors[j] # colors[i]
        idx == SelectSeq([i \in 1..Len(colors) |-> i], first)
    IN  [k \in 1..Len(idx) |-> colors[idx[k]]]

\* Mutant of DominantLoop: a new maximum does not clear isTie.
RECURSIVE DominantLoop_noTieReset(_, _, _)
DominantLoop_noTieReset(keys, colors, st) ==
    IF keys = <<>> THEN st
    ELSE LET color == Head(keys)
             count == CountOf(colors, color)
             nst == IF count > st.maxCount
                    THEN [st EXCEPT !.dominantColor = color, !.maxCount = count]
                    ELSE IF count = st.maxCount
                         THEN [st EXCEPT !.isTie = TRUE]
                         ELSE st
         IN  DominantLoop_noTieReset(Tail(keys), colors, nst)

\* The loop over colorCounts.entries(): st is (dominantColor, maxCount, isTie).
RECURSIVE DominantLoop(_, _, _)
DominantLoop(keys, colors, st) ==
    IF keys = <<>> THEN st
    ELSE LET color == Head(keys)
             count == CountOf(colors, color)
             nst == IF count > st.maxCount
                    THEN [dominantColor |-> color, maxCount |-> count, isTie |-> FALSE]
                    ELSE IF count = st.maxCount
                         THEN [st EXCEPT !.isTie = TRUE]
                         ELSE st
         IN  DominantLoop(Tail(keys), colors, nst)

\* The body of getNewCellColor once the neighbour colours are collected.
ResolveColors(neighborColors) ==
    LET st == DominantLoop(MapKeys(neighborColors), neighborColors,
                           [dominantColor |-> Null, maxCount |-> 0, isTie |-> FALSE])
    IN  IF st.isTie \/ ~Truthy(st.dominantColor)
        THEN averageColors(neighborColors)
        ELSE st.dominantColor

\* getNewCellColor(x, y)
getNewCellColor(b, x, y) == ResolveColors(getLiveNeighbors(b, x, y))

\* ------------------------------------------------------- structural step

\* The game-life library's board: the set of live coordinates (unbounded plane).
LibNeighbors(p) ==
    {<<p[1] + dx, p[2] + dy>> : dx \in -1..1, dy \in -1..1} \ {p}

\* GameEngine.nextGeneration: the standard rule (survive on 2 or 3, born on 3).
nextGeneration(gameBoard) ==
    LET cand == gameBoard \cup UNION {LibNeighbors(q) : q \in gameBoard}
        n(p) == Cardinality(LibNeighbors(p) \cap gameBoard)
    IN  {p \in cand : IF p \in gameBoard THEN n(p) \in {2, 3} ELSE n(p) = 3}

\* The cells passed to gameBoard.setCell(x, y, true), which are also the cells
\* set to 1 in previousStateMatrix.
previousState(b) == {p \in Positions : Truthy(b[p[2]][p[1]])}

\* Mutant of newCellColor: the library board is read with x and y swapped.
newCellColor_transposed(b, previousStateMatrix, nextGameBoard, x, y) ==
    IF <<y, x>> \in nextGameBoard
    THEN IF <<x, y>> \in previousStateMatrix THEN b[y][x] ELSE getNewCellColor(b, x, y)
    ELSE Null

\* Mutant of newCellColor: a survivor is coloured like a newborn.
newCellColor_recolorSurvivor(b, previousStateMatrix, nextGameBoard, x, y) ==
    IF <<x, y>> \in nextGameBoard THEN getNewCellColor(b, x, y) ELSE Null

\* newBoard[y][x] in the loop of step 2.
newCellColor(b, previousStateMatrix, nextGameBoard, x, y) ==
    LET isAliveInNewState == <<x, y>> \in nextGameBoard
        wasAliveInOldState == <<x, y>> \in previousStateMatrix
    IN  IF isAliveInNewState
        THEN IF wasAliveInOldState THEN b[y][x] ELSE getNewCellColor(b, x, y)
        ELSE Null

\* The positions in the order the loops of step 2 visit them: y outer, x inner.
ScanOrder ==
    [i \in 1..(BOARD_WIDTH * BOARD_HEIGHT) |->
        [x |-> (i - 1) % BOARD_WIDTH, y |-> (i - 1) \div BOARD_WIDTH]]

\* Mutant of collectChanges: a change carries the colour before the tick.
collectChanges_oldColor(b, nb) ==
    LET differs(p) == nb[p.y][p.x] # b[p.y][p.x]
        kept == SelectSeq(ScanOrder, differs)
    IN  [i \in 1..Len(kept) |->
            [x |-> kept[i].x, y |-> kept[i].y, color |-> b[kept[i].y][kept[i].x]]]

\* Mutant of collectChanges: every position is pushed, changed or not.
collectChanges_everyCell(b, nb) ==
    [i \in 1..Len(ScanOrder) |->
        [x |-> ScanOrder[i].x, y |-> ScanOrder[i].y,
         color |-> nb[ScanOrder[i].y][ScanOrder[i].x]]]

\* The changes pushed by the loop of step 2.
collectChanges(b, nb) ==
    LET differs(p) == nb[p.y][p.x] # b[p.y][p.x]
        kept == SelectSeq(ScanOrder, differs)
    IN  [i \in 1..Len(kept) |->
            [x |-> kept[i].x, y |-> kept[i].y, color |-> nb[kept[i].y][kept[i].x]]]

\* hex.slice(...) on a value that is no string: a TypeError.
sliceThrows(hex) == Len(hex) # 7

\* averageColors(colors) throws at the first colour that has no slice method.
averageColorsThrows(colors) ==
    Len(colors) > 0 /\ \E i \in 1..Len(colors) : sliceThrows(colors[i])

\* getNewCellColor(x, y) throws when it falls back to averageColors and that throws.
getNewCellColorThrows(b, x, y) ==
    LET neighborColors == getLiveNeighbors(b, x, y)
        st == DominantLoop(MapKeys(neighborColors), neighborColors,
                           [dominantColor |-> Null, maxCount |-> 0, isTie |-> FALSE])
    IN  (st.isTie \/ ~Truthy(st.dominantColor)) /\ averageColorsThrows(neighborColors)

\* calculateNextStep() throws, after generation++ and before board = newBoard,
\* when the colour of some newborn cannot be computed.
calculateNextStepThrows(b) ==
    /\ \E p \in Positions : Truthy(b[p[2]][p[1]]) /\ sliceThrows(b[p[2]][p[1]])
    /\ LET previousStateMatrix == previousState(b)
           nextGameBoard == nextGeneration(previousStateMatrix)
       IN  \E p \in Positions :
              /\ p \in nextGameBoard
              /\ p \notin previousStateMatrix
              /\ getNewCellColorThrows(b, p[1], p[2])

\* Mutant of calculateNextStep: the generation advances only when something changed.
calculateNextStep_quietKeepsGeneration(b, g) ==
    LET previousStateMatrix == previousState(b)
        nextGameBoard == nextGeneration(previousStateMatrix)
        nb == [y \in Ys |-> [x \in Xs |->
                  newCellColor(b, previousStateMatrix, nextGameBoard, x, y)]]
        cs == collectChanges(b, nb)
    IN  [board |-> nb, changes |-> cs,
         nextGeneration |-> IF cs = <<>> THEN g ELSE g + 1]

\* calculateNextStep(): from the board and generation before the call, the board
\* written, the changes and the generation returned.
calculateNextStep(b, g) ==
    LET previousStateMatrix == previousState(b)
        nextGameBoard == nextGeneration(previousStateMatrix)
        nb == [y \in Ys |-> [x \in Xs |->
                  newCellColor(b, previousStateMatrix, nextGameBoard, x, y)]]
    IN  [board |-> nb, changes |-> collectChanges(b, nb), nextGeneration |-> g + 1]

\* Mutant of commitCells: the first out-of-bounds entry ends the loop.
RECURSIVE commitCells_abortOnBad(_, _)
commitCells_abortOnBad(b, cells) ==
    IF cells = <<>> THEN b
    ELSE LET cell == Head(cells)
         IN  IF cell.x >= 0 /\ cell.x < BOARD_WIDTH
                /\ cell.y >= 0 /\ cell.y < BOARD_HEIGHT
             THEN commitCells_abortOnBad([b EXCEPT ![cell.y][cell.x] = cell.color],
                                         Tail(cells))
             ELSE b

\* Mutant of commitCells: a cell that already holds a colour is not overwritten.
RECURSIVE commitCells_keepsExisting(_, _)
commitCells_keepsExisting(b, cells) ==
    IF cells = <<>> THEN b
    ELSE LET cell == Head(cells)
             wb == IF cell.x >= 0 /\ cell.x < BOARD_WIDTH
                      /\ cell.y >= 0 /\ cell.y < BOARD_HEIGHT
                      /\ b[cell.y][cell.x] = Null
                   THEN [b EXCEPT ![cell.y][cell.x] = cell.color]
                   ELSE b
         IN  commitCells_keepsExisting(wb, Tail(cells))

\* Mutant of commitCells: coordinates outside the grid wrap around into it.
RECURSIVE commitCells_wraps(_, _)
commitCells_wraps(b, cells) ==
    IF cells = <<>> THEN b
    ELSE LET cell == Head(cells)
         IN  commitCells_wraps([b EXCEPT ![cell.y % BOARD_HEIGHT][cell.x % BOARD_WIDTH]
                                            = cell.color],
                               Tail(cells))

\* JavaScript's row[x] = v on an array: an index at or past the end extends it.
arrayWrite(row, x, v) ==
    [i \in (DOMAIN row) \cup (0..x) |-> IF i = x THEN v ELSE IF i \in DOMAIN row THEN row[i] ELSE Null]

\* Mutant of commitCells: the bounds test has no upper limit for x.
RECURSIVE commitCells_noUpperBound(_, _)
commitCells_noUpperBound(b, cells) ==
    IF cells = <<>> THEN b
    ELSE LET cell == Head(cells)
             wb == IF cell.x >= 0 /\ cell.y >= 0 /\ cell.y < BOARD_HEIGHT
                   THEN [b EXCEPT ![cell.y] = arrayWrite(@, cell.x, cell.color)]
                   ELSE b
         IN  commitCells_noUpperBound(wb, Tail(cells))

\* commitCells(cells)
RECURSIVE commitCells(_, _)
commitCells(b, cells) ==
    IF cells = <<>> THEN b
    ELSE LET cell == Head(cells)
             wb == IF cell.x >= 0 /\ cell.x < BOARD_WIDTH
                      /\ cell.y >= 0 /\ cell.y < BOARD_HEIGHT
                   THEN [b EXCEPT ![cell.y][cell.x] = cell.color]
                   ELSE b
         IN  commitCells(wb, Tail(cells))

\* getFullBoardState()
getFullBoardState(b, g) == [board |-> b, generation |-> g]

\* ------------------------------------------------------------------ state

VARIABLES
    board,             \* game-logic: let board
    generation,        \* game-logic: let generation
    changes,           \* the change list returned by the last calculateNextStep
    ticks,             \* how many times the interval callback has run
    replaced,          \* how many times calculateNextStep has reached board = newBoard
    draws,             \* how many draw submissions the server has handled
    lastCells,         \* the cells array of the last draw submission
    drawReply,         \* the body of the last response of POST /api/draw
    held,              \* the object a caller got from getFullBoardState and kept
    lastTransport,     \* what sendDraw used for the last draw: "ws", "http" or "none"
    serverOpen,        \* per socket: it is in wss.clients with readyState OPEN
    wsQueue,           \* per socket: the messages sent to it and not yet delivered
    httpFlight,        \* per client: its GET /api/board-state (none, request, response)
    activeConnections, \* the Set activeConnections
    sendErrors,        \* per socket: how many client.send calls to it have thrown
    isAlive,           \* per socket: ws.isAlive
    lastRound,         \* the last run of the heartbeat callback: the sockets it pinged, those
                       \* of them that have not answered yet, those it terminated, those it
                       \* pinged again after their pong, and the parity of the runs
    connected,         \* per client: the ref connected
    gameState,         \* per client: the ref gameState (null, or the loaded state)
    clientGeneration,  \* per client: the ref generation
    wsState,           \* per client: the socket connect() made last: "connecting", "open",
                       \* "closed", and after disconnect() "disconnecting" (close event
                       \* pending), "disconnected"
    reconnectAttempts, \* per client: the ref reconnectAttempts
    autoAttempts,      \* per client: the connect() calls of retry timers since the last onopen
    retryTimer,        \* per client: the setTimeout armed by onclose, with its delay
    simulationInterval, \* let simulationInterval: the handle of the tick timer, or NoTimer
    timers,            \* the handles of the tick timers that setInterval made and nothing cleared
    heartbeat,         \* the heartbeat interval has not been cleared
    exiting,           \* the uncaughtException handler has run
    tickPc,            \* where the interval callback stands: "idle" or "advanced"
    lastCall,          \* the start/stopSimulation calls made so far, and the last one
    stagingCells,      \* GameBoard.vue: the ref stagingCells
    isDrawing,         \* GameBoard.vue: the ref isDrawing
    lastDrawnCell,     \* GameBoard.vue: the ref lastDrawnCell
    pendingClick,      \* the click event the browser owes after a press and release
    press,             \* where the mouse button went down, and whether that cell was staged
    query,             \* the position the resolver was last asked about
    resolved           \* the colour the resolver returned for it

gameVars == <<board, generation, changes, ticks, replaced, draws>>
drawVars == <<lastCells, drawReply, held, lastTransport>>
netVars == <<serverOpen, wsQueue, httpFlight, activeConnections, sendErrors, isAlive, lastRound>>
clientVars ==
    <<connected, gameState, clientGeneration, wsState, reconnectAttempts, autoAttempts, retryTimer>>
resolverVars == <<query, resolved>>
procVars == <<simulationInterval, timers, heartbeat, exiting, tickPc, lastCall>>
uiVars == <<stagingCells, isDrawing, lastDrawnCell, pendingClick, press>>
vars == <<gameVars, drawVars, netVars, clientVars, resolverVars, procVars, uiVars>>

Clients == 1..NumClients
Sockets == 1..NumSockets

NoQuery == <<-1, -1>>
NoFlight == [kind |-> "none"]
NullState == [kind |-> "null"]
NoReply == [kind |-> "none"]
NoSnapshot == [kind |-> "none"]
NoTimer == 0
NoRetry == [kind |-> "none"]
NoRound == [parity |-> 0, pinged |-> {}, unanswered |-> {}, terminated |-> {}, spared |-> {}]
NoCell == <<-1, -1>>
NoPress == [kind |-> "none"]

\* Nothing is connected and nothing is in flight.
InitNet ==
    /\ serverOpen = [c \in Sockets |-> FALSE]
    /\ wsQueue = [c \in Sockets |-> <<>>]
    /\ httpFlight = [c \in Clients |-> NoFlight]
    /\ activeConnections = {}
    /\ sendErrors = [c \in Sockets |-> 0]
    /\ isAlive = [c \in Sockets |-> FALSE]
    /\ lastRound = NoRound

\* No draw has been submitted and nobody holds a board state object.
InitDraws ==
    /\ lastCells = <<>>
    /\ drawReply = NoReply
    /\ held = NoSnapshot
    /\ lastTransport = "none"

\* const gameState = ref(null); const generation = ref(0); const connected = ref(false);
\* const reconnectAttempts = ref(0); onMounted has called connect().
InitClients ==
    /\ connected = [c \in Clients |-> FALSE]
    /\ gameState = [c \in Clients |-> NullState]
    /\ clientGeneration = [c \in Clients |-> 0]
    /\ wsState = [c \in Clients |-> "connecting"]
    /\ reconnectAttempts = [c \in Clients |-> 0]
    /\ autoAttempts = [c \in Clients |-> 0]
    /\ retryTimer = [c \in Clients |-> NoRetry]

\* The module has been loaded: the heartbeat interval is set and startSimulation()
\* has made the tick timer.
InitProc ==
    /\ simulationInterval = 1
    /\ timers = {1}
    /\ heartbeat = TRUE
    /\ exiting = FALSE
    /\ tickPc = "idle"
    /\ lastCall = [n |-> 0, op |-> "none", startsWhileRunning |-> 0, stopsWhileStopped |-> 0]

\* GameBoard.vue: stagingCells = ref([]), isDrawing = ref(false), lastDrawnCell = ref(null)
InitUi ==
    /\ stagingCells = <<>>
    /\ isDrawing = FALSE
    /\ lastDrawnCell = NoCell
    /\ pendingClick = NoCell
    /\ press = NoPress

\* ------------------------------------------------------ server and clients

\* The batches a draw submission may carry: a column of three cells in two
\* colours, and a single cell between two out-of-bounds entries.
DrawBatches ==
    { << [x |-> 1, y |-> 0, color |-> Red],
         [x |-> 1, y |-> 1, color |-> White],
         [x |-> 1, y |-> 2, color |-> Red] >>,
      << [x |-> -1, y |-> 0, color |-> Red],
         [x |-> 0, y |-> 0, color |-> Black],
         [x |-> BOARD_WIDTH, y |-> BOARD_HEIGHT, color |-> Red] >> }

\* The sockets a broadcast may find OPEN, and the total of sends that have thrown.
OpenSockets == {c \in Sockets : serverOpen[c]}
TotalSendErrors == Cardinality({<<c, k>> \in Sockets \X (1..MaxSendErrors) : k <= sendErrors[c]})

\* The sets of sockets whose send may throw in one broadcast.
Throwing == {f \in SUBSET OpenSockets : TotalSendErrors + Cardinality(f) <= MaxSendErrors}

\* Mutant of Broadcast: the first send that throws ends the forEach.
Broadcast_abortOnThrow(q, open, fails, m) ==
    [c \in Sockets |->
        IF open[c] /\ ~(\E f \in fails : open[f] /\ f <= c) THEN Append(q[c], m) ELSE q[c]]

\* wss.clients.forEach(client => { if (client.readyState === client.OPEN)
\*   try { client.send(m) } catch ... }): the send to a socket in fails throws.
Broadcast(q, open, fails, m) ==
    [c \in Sockets |-> IF open[c] /\ c \notin fails THEN Append(q[c], m) ELSE q[c]]

\* The catch blocks of the broadcasts, counted per socket.
countErrors(errs, fails) == [c \in Sockets |-> IF c \in fails THEN errs[c] + 1 ELSE errs[c]]

\* The loops of onmessage that write change.color (or cell.color) into the local
\* board where the position lies inside it.
RECURSIVE applyToLocal(_, _)
applyToLocal(b, entries) ==
    IF entries = <<>> THEN b
    ELSE LET e == Head(entries)
             wb == IF e.y >= 0 /\ e.y < BOARD_HEIGHT /\ e.x >= 0 /\ e.x < BOARD_WIDTH
                   THEN [b EXCEPT ![e.y][e.x] = e.color]
                   ELSE b
         IN  applyToLocal(wb, Tail(entries))

\* let board = ...; let generation = 0; no socket, no client state
Init ==
    /\ board = EmptyBoard
    /\ generation = 0
    /\ changes = <<>>
    /\ ticks = 0
    /\ replaced = 0
    /\ draws = 0
    /\ InitDraws
    /\ InitNet
    /\ InitClients
    /\ InitProc
    /\ InitUi
    /\ query = NoQuery
    /\ resolved = Null

\* Socket c is a new one, or gone: the last round's pings do not concern it.
forget(round, c) ==
    [round EXCEPT !.pinged = @ \ {c}, !.unanswered = @ \ {c}]

\* wss.on('connection'): the socket joins wss.clients and activeConnections, and
\* ws.isAlive = true.
ServerOnConnection(c) ==
    /\ ~serverOpen[c]
    /\ serverOpen' = [serverOpen EXCEPT ![c] = TRUE]
    /\ activeConnections' = activeConnections \cup {c}
    /\ isAlive' = [isAlive EXCEPT ![c] = TRUE]
    /\ lastRound' = forget(lastRound, c)
    /\ UNCHANGED <<gameVars, drawVars, wsQueue, httpFlight, sendErrors, clientVars,
                   resolverVars, procVars, uiVars>>

\* ws.onopen: connected = true, reconnectAttempts = 0, then fetchInitialState()
\* sends its request.
ClientOnOpen(c) ==
    /\ serverOpen[c]
    /\ ~connected[c]
    /\ wsState[c] = "connecting"
    /\ wsState' = [wsState EXCEPT ![c] = "open"]
    /\ connected' = [connected EXCEPT ![c] = TRUE]
    /\ reconnectAttempts' = [reconnectAttempts EXCEPT ![c] = 0]
    /\ autoAttempts' = [autoAttempts EXCEPT ![c] = 0]
    /\ httpFlight' = [httpFlight EXCEPT ![c] = [kind |-> "request"]]
    /\ UNCHANGED <<gameVars, drawVars, serverOpen, wsQueue, activeConnections, sendErrors,
                   isAlive, lastRound, gameState, clientGeneration, retryTimer, resolverVars,
                   procVars, uiVars>>

\* app.get('/api/board-state'): res.json(getFullBoardState()).
ServeBoardState(c) ==
    /\ httpFlight[c].kind = "request"
    /\ LET s == getFullBoardState(board, generation)
       IN  httpFlight' = [httpFlight EXCEPT ![c] =
               [kind |-> "response", board |-> s.board, generation |-> s.generation]]
    /\ UNCHANGED <<gameVars, drawVars, serverOpen, wsQueue, activeConnections, sendErrors,
                   isAlive, lastRound, clientVars, resolverVars, procVars, uiVars>>

\* fetchInitialState, after await response.json(): gameState = data, generation = data.generation
ClientLoadState(c) ==
    /\ httpFlight[c].kind = "response"
    /\ gameState' = [gameState EXCEPT ![c] =
           [kind |-> "state", board |-> httpFlight[c].board,
            generation |-> httpFlight[c].generation]]
    /\ clientGeneration' = [clientGeneration EXCEPT ![c] = httpFlight[c].generation]
    /\ httpFlight' = [httpFlight EXCEPT ![c] = NoFlight]
    /\ UNCHANGED <<gameVars, drawVars, serverOpen, wsQueue, activeConnections, sendErrors,
                   isAlive, lastRound, connected, wsState, reconnectAttempts, autoAttempts, retryTimer,
                   resolverVars, procVars, uiVars>>

\* ws.onmessage for the oldest undelivered message.
ClientOnMessage(c) ==
    /\ connected[c]
    /\ wsQueue[c] # <<>>
    /\ LET m == Head(wsQueue[c])
       IN  IF gameState[c].kind = "state"
           THEN IF m.type = "delta"
                THEN /\ gameState' = [gameState EXCEPT
                            ![c].board = applyToLocal(gameState[c].board, m.changes)]
                     /\ clientGeneration' = [clientGeneration EXCEPT ![c] = m.generation]
                ELSE /\ gameState' = [gameState EXCEPT
                            ![c].board = applyToLocal(gameState[c].board, m.cells)]
                     /\ UNCHANGED clientGeneration
           ELSE UNCHANGED <<gameState, clientGeneration>>
    /\ wsQueue' = [wsQueue EXCEPT ![c] = Tail(wsQueue[c])]
    /\ UNCHANGED <<gameVars, drawVars, serverOpen, httpFlight, activeConnections, sendErrors,
                   isAlive, lastRound, connected, wsState, reconnectAttempts, autoAttempts, retryTimer,
                   resolverVars, procVars, uiVars>>

\* The object built for JSON.stringify in both draw handlers: cells is the array
\* as submitted.
drawMessage(cells, clientId) ==
    [type |-> "immediate_draw", cells |-> cells, clientId |-> clientId]

\* board[cell.y][cell.x] = cell.color writes into the array itself: an object
\* that was returned by getFullBoardState while board referred to the same
\* array shows the write.
writeThrough(h, cells) ==
    IF h.kind = "held" /\ h.shared THEN [h EXCEPT !.board = commitCells(@, cells)] ELSE h

\* What both draw handlers do: commitCells(cells), then the immediate_draw
\* broadcast, in which a send that throws is logged and nothing else.
HandleDraw(cells, clientId) ==
    /\ draws < MaxDraws
    /\ board' = commitCells(board, cells)
    /\ held' = writeThrough(held, cells)
    /\ lastCells' = cells
    /\ \E fails \in Throwing :
          /\ wsQueue' = Broadcast(wsQueue, serverOpen, fails, drawMessage(cells, clientId))
          /\ sendErrors' = countErrors(sendErrors, fails)
    /\ draws' = draws + 1
    /\ UNCHANGED <<generation, changes, ticks, replaced, serverOpen, httpFlight, activeConnections,
                   isAlive, lastRound, clientVars, resolverVars, procVars, uiVars>>

\* ws.on('message') with data.type === 'draw', sent by a connected client; the
\* handler sends no reply.
DrawWs(c, cells) ==
    /\ serverOpen[c]
    /\ connected[c]
    /\ HandleDraw(cells, c)
    /\ lastTransport' = "ws"
    /\ UNCHANGED drawReply

\* The body of the response of POST /api/draw.
drawResponse(cells) == [kind |-> "json", success |-> TRUE, cellsDrawn |-> Len(cells)]

\* app.post('/api/draw'), the fallback of a client that is not connected.
DrawHttp(c, cells) ==
    /\ ~connected[c]
    /\ HandleDraw(cells, c)
    /\ lastTransport' = "http"
    /\ drawReply' = drawResponse(cells)

\* Mutant of deltaMessage: the message carries the generation before the tick.
deltaMessage_staleGeneration(r) ==
    [type |-> "delta", changes |-> r.changes, generation |-> r.nextGeneration - 1]

\* The object built for JSON.stringify in the interval callback.
deltaMessage(r) ==
    [type |-> "delta", changes |-> r.changes, generation |-> r.nextGeneration]

\* Mutant of broadcastDelta: the broadcast is not guarded by changes.length > 0.
broadcastDelta_always(q, open, fails, r) == Broadcast(q, open, fails, deltaMessage(r))

\* if (changes.length > 0) { ... wss.clients.forEach(...) }
broadcastDelta(q, open, fails, r) ==
    IF Len(r.changes) > 0 THEN Broadcast(q, open, fails, deltaMessage(r)) ELSE q

\* Mutant of uncaught: the handlers have no try/catch.
uncaught_noTryCatch(threw) == threw

\* Whether an exception thrown inside a handler reaches process.on('uncaughtException'):
\* the body of the interval callback and the bodies of both draw handlers are
\* wrapped in try/catch blocks that log and return.
uncaught(threw) == FALSE

\* process.on('uncaughtException'): stopSimulation(), which clears the tick timer
\* and the heartbeat, then process.exit(1) after a second.
onUncaughtException ==
    /\ simulationInterval' = NoTimer
    /\ timers' = timers \ {simulationInterval}
    /\ heartbeat' = FALSE
    /\ exiting' = TRUE

\* Mutant of preTickBoard: the library board of the tick lacks the cells of the
\* last draw.
preTickBoard_beforeDraw ==
    [y \in Ys |-> [x \in Xs |->
        IF \E n \in 1..Len(lastCells) : lastCells[n].x = x /\ lastCells[n].y = y
        THEN Null ELSE board[y][x]]]

\* The board that step 1 of calculateNextStep copies into the library board and
\* into previousStateMatrix: the global board as it is when the callback runs.
preTickBoard == board

\* The setInterval callback of startSimulation: calculateNextStep(), which binds
\* board to a new array, then the delta broadcast; a socket whose send throws is
\* deleted from activeConnections. A throw of calculateNextStep leaves the
\* generation advanced and the board as it was, returns no change list, and is
\* logged by the catch. It runs while its timer exists, start to end.
Tick ==
    /\ timers # {}
    /\ tickPc = "idle"
    /\ generation < MaxGeneration
    /\ IF calculateNextStepThrows(preTickBoard)
       THEN /\ generation' = generation + 1
            /\ changes' = <<>>
            /\ UNCHANGED <<board, replaced, wsQueue, sendErrors, activeConnections, held>>
            /\ IF uncaught(TRUE)
               THEN onUncaughtException
               ELSE UNCHANGED <<simulationInterval, timers, heartbeat, exiting>>
       ELSE /\ \E r \in {calculateNextStep(preTickBoard, generation)} :
                   /\ board' = r.board
                   /\ changes' = r.changes
                   /\ generation' = r.nextGeneration
                   /\ \E fails \in (IF Len(r.changes) > 0 THEN Throwing ELSE {{}}) :
                         /\ wsQueue' = broadcastDelta(wsQueue, serverOpen, fails, r)
                         /\ sendErrors' = countErrors(sendErrors, fails)
                         /\ activeConnections' = activeConnections \ fails
                         /\ IF uncaught(fails # {})
                            THEN onUncaughtException
                            ELSE UNCHANGED <<simulationInterval, timers, heartbeat, exiting>>
            /\ replaced' = replaced + 1
            /\ held' = IF held.kind = "held" THEN [held EXCEPT !.shared = FALSE] ELSE held
    /\ ticks' = ticks + 1
    /\ UNCHANGED <<draws, lastCells, drawReply, lastTransport, serverOpen, httpFlight, isAlive, lastRound,
                   clientVars, resolverVars, tickPc, lastCall, uiVars>>

Next ==
    \/ Tick
    \/ \E c \in Clients :
          \/ ServerOnConnection(c)
          \/ ClientOnOpen(c)
          \/ ServeBoardState(c)
          \/ ClientLoadState(c)
          \/ ClientOnMessage(c)
          \/ \E cells \in DrawBatches : DrawWs(c, cells) \/ DrawHttp(c, cells)

Spec == Init /\ [][Next]_vars

\* --------------------------------------------------- the simulation engine

\* The colour a cell of an initial pattern holds: it varies with the position so
\* that neighbourhoods mix colours.
PatternColor(x, y) ==
    CASE (x + 2 * y) % 3 = 0 -> Red
      [] (x + 2 * y) % 3 = 1 -> Blue
      [] OTHER -> White

\* Every live/dead pattern on the grid, as left by earlier draws.
InitEngine ==
    /\ \E live \in SUBSET Positions :
          board = [y \in Ys |-> [x \in Xs |->
                      IF <<x, y>> \in live THEN PatternColor(x, y) ELSE Null]]
    /\ generation = 0
    /\ changes = <<>>
    /\ ticks = 0
    /\ replaced = 0
    /\ draws = 0
    /\ InitDraws
    /\ InitNet
    /\ InitClients
    /\ InitProc
    /\ InitUi
    /\ query = NoQuery
    /\ resolved = Null

\* Ticks alone, with no observer connected.
NextEngine == Tick

SpecEngine == InitEngine /\ [][NextEngine]_vars

\* ------------------------------------------------------------ the resolver

\* The Moore neighbourhood of a position, clipped to the grid.
Moore(p) == {q \in Positions : q # p /\ q[1] - p[1] \in -1..1 /\ q[2] - p[2] \in -1..1}

\* A position and any colouring of at most MaxLiveNeighbors of its neighbours.
InitResolver ==
    /\ \E p \in Positions : \E nb \in [Moore(p) -> Palette \cup {Null}] :
          /\ Cardinality({q \in Moore(p) : nb[q] # Null}) <= MaxLiveNeighbors
          /\ query = p
          /\ board = [y \in Ys |-> [x \in Xs |->
                        IF <<x, y>> \in Moore(p) THEN nb[<<x, y>>] ELSE Null]]
    /\ generation = 0
    /\ changes = <<>>
    /\ ticks = 0
    /\ replaced = 0
    /\ draws = 0
    /\ InitDraws
    /\ InitNet
    /\ InitClients
    /\ InitProc
    /\ InitUi
    /\ resolved = Null

\* One call getNewCellColor(x, y) on the current board.
Resolve ==
    /\ resolved = Null
    /\ resolved' = getNewCellColor(board, query[1], query[2])
    /\ UNCHANGED <<gameVars, drawVars, netVars, clientVars, query, procVars, uiVars>>

NextResolver == Resolve

SpecResolver == InitResolver /\ [][NextResolver]_vars

\* ---------------------------------------------------------- the board store

\* The entries a cells array of the board store is made of: one left of the
\* grid, one below it, one position in two colours, and the end of the first row.
DrawCells ==
    { [x |-> -1, y |-> 0, color |-> Red],
      [x |-> 0, y |-> BOARD_HEIGHT, color |-> Red],
      [x |-> 0, y |-> 0, color |-> Red],
      [x |-> 0, y |-> 0, color |-> Black],
      [x |-> BOARD_WIDTH - 1, y |-> 0, color |-> Blue] }

\* Every cells array of at most MaxBatch such entries, the empty one included.
StoreBatches == UNION {[1..n -> DrawCells] : n \in 0..MaxBatch}

\* The board is empty, or every cell holds a colour left by earlier draws.
InitStore ==
    /\ board \in {EmptyBoard, [y \in Ys |-> [x \in Xs |-> PatternColor(x, y)]]}
    /\ generation = 0
    /\ changes = <<>>
    /\ ticks = 0
    /\ replaced = 0
    /\ draws = 0
    /\ InitDraws
    /\ InitNet
    /\ InitClients
    /\ InitProc
    /\ InitUi
    /\ query = NoQuery
    /\ resolved = Null

\* A caller of getFullBoardState() keeps the object it got: its board field is
\* the array board refers to, its generation field a number. taken records what
\* the object showed when it was returned.
TakeSnapshot ==
    /\ held = NoSnapshot
    /\ LET s == getFullBoardState(board, generation)
       IN  held' = [kind |-> "held", board |-> s.board, generation |-> s.generation,
                    shared |-> TRUE, taken |-> s]
    /\ UNCHANGED <<gameVars, lastCells, drawReply, lastTransport, netVars, clientVars,
                   resolverVars, procVars, uiVars>>

\* Draw submissions of the first client over HTTP, state queries and ticks, with
\* no socket connected.
NextStore ==
    \/ Tick
    \/ TakeSnapshot
    \/ \E cells \in StoreBatches : DrawHttp(1, cells)

SpecStore == InitStore /\ [][NextStore]_vars

\* ----------------------------------------------------------- the broadcasts

\* Sockets connect, ticks run and draws are submitted over HTTP; the sockets'
\* peers read nothing, so that wsQueue holds every message sent to a socket, in
\* the order of the sends.
NextBroadcast ==
    \/ Tick
    \/ \E c \in Sockets : ServerOnConnection(c)
    \/ \E c \in Clients : \E cells \in DrawBatches : DrawHttp(c, cells)

SpecBroadcast == Init /\ [][NextBroadcast]_vars

\* --------------------------------------------------------------- the ingest

\* A value that is no colour string, as a peer may put into the color field.
NotAColor == <<"4", "2">>

\* The entries a peer may put into cells: a cell object (its colour may be no
\* colour), null, and a cell object whose coordinates are the strings "1"; and
\* what the loop of commitCells gets from a cells field that is a string, its
\* characters. RawFractionX(x, y, c) is a cell object whose x is x + 0.5, and
\* RawFractionY(x, y, c) one whose y is y + 0.5.
RawCell(x, y, color) == [kind |-> "cell", x |-> x, y |-> y, color |-> color]
RawNull == [kind |-> "null"]
RawStringCoords(x, y, color) == [kind |-> "stringCoords", x |-> x, y |-> y, color |-> color]
RawChar == [kind |-> "char"]
RawFractionX(x, y, color) == [kind |-> "fractionX", x |-> x, y |-> y, color |-> color]
RawFractionY(x, y, color) == [kind |-> "fractionY", x |-> x, y |-> y, color |-> color]

\* The values of the cells field of the submissions that are tried: no field at
\* all, a cell followed by null, null followed by a cell, a cell with a colour
\* that is none, a cell with string coordinates, the column of DrawBatches, and
\* a string of two characters in place of an array.
RawPayloads ==
    { [kind |-> "missing"],
      [kind |-> "string", items |-> <<RawChar, RawChar>>],
      [kind |-> "array", items |-> <<RawCell(0, 0, Red), RawNull>>],
      [kind |-> "array", items |-> <<RawNull, RawCell(0, 0, Red)>>],
      [kind |-> "array", items |-> <<RawCell(1, 0, NotAColor)>>],
      [kind |-> "array", items |-> <<RawCell(0, 0, NotAColor), RawCell(1, 0, Red),
                                     RawCell(0, 1, Blue)>>],
      [kind |-> "array", items |-> <<RawStringCoords(1, 1, Red)>>],
      [kind |-> "array", items |-> <<RawCell(1, 0, Red), RawCell(1, 1, White),
                                     RawCell(1, 2, Red)>>] }

\* The WebSocket messages that are tried: text that is no JSON, a JSON message of
\* another type, and a draw message with each of the payloads.
RawMessages ==
    {[kind |-> "garbage"], [kind |-> "json", type |-> "ping"]}
        \cup {[kind |-> "json", type |-> "draw", cells |-> p] : p \in RawPayloads}

\* One turn of the loop of commitCells on an entry as JavaScript evaluates it:
\* reading .x of null throws; the .x of a character is undefined and fails the
\* bounds test; string coordinates compare and index like the numbers they
\* spell; the colour is stored whatever it is. A fractional x that passes the
\* bounds test sets a property of the row that is no element of it, and a
\* fractional y that passes it selects no row, so that the write throws.
commitEntry(b, e) ==
    IF e.kind = "null" THEN [board |-> b, threw |-> TRUE]
    ELSE IF e.kind = "char" THEN [board |-> b, threw |-> FALSE]
    ELSE IF e.kind = "fractionX"
         THEN [board |-> b, threw |-> FALSE]
    ELSE IF e.kind = "fractionY"
         THEN [board |-> b, threw |-> InBounds(e.x, e.y)]
    ELSE [board |-> commitCells(b, <<[x |-> e.x, y |-> e.y, color |-> e.color]>>),
          threw |-> FALSE]

\* commitCells(cells) on the entries of an array: the writes made before an
\* entry throws stay on the board.
RECURSIVE commitRaw(_, _)
commitRaw(b, items) ==
    IF items = <<>> THEN [board |-> b, threw |-> FALSE]
    ELSE LET r == commitEntry(b, Head(items))
         IN  IF r.threw THEN r ELSE commitRaw(r.board, Tail(items))

\* commitCells(cells) on the cells field: for (const cell of undefined) throws
\* before any write; an array and a string are iterated.
commitPayload(b, p) ==
    IF p.kind \in {"array", "string"}
    THEN commitRaw(b, p.items)
    ELSE [board |-> b, threw |-> TRUE]

\* ws.on('message'): JSON.parse, and for type 'draw' commitCells and the
\* immediate_draw broadcast; whatever throws is caught and logged, so that a
\* throw of commitCells skips the broadcast. The result names the board, the
\* queues and whether the broadcast was reached.
wsDraw(b, q, open, fails, msg, clientId) ==
    IF msg.kind = "garbage" \/ msg.type # "draw"
    THEN [board |-> b, wsQueue |-> q, sent |-> FALSE, threw |-> msg.kind = "garbage"]
    ELSE LET r == commitPayload(b, msg.cells)
         IN  IF r.threw
             THEN [board |-> r.board, wsQueue |-> q, sent |-> FALSE, threw |-> TRUE]
             ELSE [board |-> r.board,
                   wsQueue |-> Broadcast(q, open, fails, drawMessage(msg.cells.items, clientId)),
                   sent |-> TRUE, threw |-> FALSE]

\* app.post('/api/draw'): 400 when cells is no array, else commitCells and the
\* immediate_draw broadcast; a throw of commitCells is caught by the handler's
\* catch, which answers 500.
httpDraw(b, q, open, fails, p, clientId) ==
    IF p.kind # "array"
    THEN [board |-> b, wsQueue |-> q, sent |-> FALSE, threw |-> FALSE, status |-> 400]
    ELSE LET r == commitRaw(b, p.items)
         IN  IF r.threw
             THEN [board |-> r.board, wsQueue |-> q, sent |-> FALSE, threw |-> TRUE,
                   status |-> 500]
             ELSE [board |-> r.board,
                   wsQueue |-> Broadcast(q, open, fails, drawMessage(p.items, clientId)),
                   sent |-> TRUE, threw |-> FALSE, status |-> 200]

\* What a draw handler leaves behind, given its result r and the sends that threw.
IngestEffect(r, fails) ==
    /\ draws < MaxDraws
    /\ board' = r.board
    /\ wsQueue' = r.wsQueue
    /\ sendErrors' = countErrors(sendErrors, fails)
    /\ held' = IF held.kind = "held" /\ held.shared THEN [held EXCEPT !.board = r.board] ELSE held
    /\ draws' = draws + 1
    /\ IF uncaught(r.threw)
       THEN onUncaughtException
       ELSE UNCHANGED <<simulationInterval, timers, heartbeat, exiting>>
    /\ UNCHANGED <<generation, changes, ticks, replaced, lastTransport, serverOpen, httpFlight,
                   activeConnections, isAlive, lastRound, clientVars, resolverVars, tickPc, lastCall,
                   uiVars>>

\* A peer sends msg on socket c and ws.on('message') handles it.
ServerOnMessage(c, msg) ==
    /\ serverOpen[c]
    /\ \E fails \in Throwing :
          LET r == wsDraw(board, wsQueue, serverOpen, fails, msg, c)
          IN  /\ r.sent \/ fails = {}
              /\ IngestEffect(r, fails)
              /\ lastCells' = IF msg.kind = "json" /\ msg.type = "draw"
                                 /\ msg.cells.kind \in {"array", "string"}
                              THEN msg.cells.items ELSE <<>>
    /\ UNCHANGED drawReply

\* A peer posts a body with the cells field p to /api/draw.
PostDraw(p, clientId) ==
    \E fails \in Throwing :
        LET r == httpDraw(board, wsQueue, serverOpen, fails, p, clientId)
        IN  /\ r.sent \/ fails = {}
            /\ IngestEffect(r, fails)
            /\ lastCells' = IF p.kind \in {"array", "string"} THEN p.items ELSE <<>>
            /\ drawReply' = IF r.status = 200
                            THEN drawResponse(p.items)
                            ELSE [kind |-> "error", status |-> r.status]

\* Sockets of the clients connect, peers send whatever they like over both
\* transports, and the tick timer fires.
NextIngest ==
    \/ Tick
    \/ \E c \in Clients :
          \/ ServerOnConnection(c)
          \/ \E msg \in RawMessages : ServerOnMessage(c, msg)
          \/ \E p \in RawPayloads : PostDraw(p, c)

SpecIngest == Init /\ [][NextIngest]_vars

\* The failures the tick loop has to survive: a draw with a null entry, and a
\* draw that stores a non-string colour next to two colours, after which the
\* step throws; and a draw of one cell, whose death the next delta announces.
LoopPayloads ==
    { [kind |-> "missing"],
      [kind |-> "array", items |-> <<RawStringCoords(1, 1, Red)>>],
      [kind |-> "array", items |-> <<RawCell(0, 0, Red), RawNull>>],
      [kind |-> "array", items |-> <<RawCell(0, 0, NotAColor), RawCell(1, 0, Red),
                                     RawCell(0, 1, Blue)>>] }

\* The first socket and the first client send text that is no JSON, a message of
\* another type and draws with these payloads; the sends to the socket throw or
\* not, and the timer ticks.
NextLoop ==
    \/ Tick
    \/ ServerOnConnection(1)
    \/ \E msg \in RawMessages :
          /\ msg.kind = "json" /\ msg.type = "draw" => msg.cells \in LoopPayloads
          /\ ServerOnMessage(1, msg)
    \/ \E p \in LoopPayloads : PostDraw(p, 1)

\* setInterval(..., 100) runs the callback again and again while the timer exists.
SpecLoop == Init /\ [][NextLoop]_vars /\ WF_vars(Tick)

\* ------------------------------------------------------- claims: the engine

\* The live in-bounds Moore neighbours of p on board b, counted without colour.
LiveNeighborCount(b, p) == Cardinality({q \in Moore(p) : b[q[2]][q[1]] # Null})

\* The positions a change list names.
ChangedPositions(cs) == {<<cs[i].x, cs[i].y>> : i \in 1..Len(cs)}

\* C1: on every tick, a cell is live afterwards exactly when, on the board before
\* the tick, it was live with 2 or 3 live in-bounds Moore neighbours or it was dead
\* with exactly 3; the count ignores colour.
C1_SurvivalRule ==
    [][generation' = generation + 1 =>
        \A p \in Positions :
            LET n == LiveNeighborCount(board, p)
                was == board[p[2]][p[1]] # Null
            IN  (board'[p[2]][p[1]] # Null)
                    <=> ((was /\ n \in {2, 3}) \/ (~was /\ n = 3))]_vars

\* A tick has run in which a cell died, a cell was born and a cell survived.
C1_Witness ==
    /\ generation >= 1
    /\ \E i \in 1..Len(changes) : changes[i].color = Null
    /\ \E i \in 1..Len(changes) : changes[i].color # Null
    /\ \E p \in Positions :
          board[p[2]][p[1]] # Null /\ p \notin ChangedPositions(changes)

\* C2: the change list of a tick names exactly the positions whose colour after
\* the tick differs from the colour before it, each once, with the colour after
\* the tick (null for a death).
C2_ExactDelta ==
    [][generation' = generation + 1 =>
        /\ \A i \in 1..Len(changes') :
              /\ <<changes'[i].x, changes'[i].y>> \in Positions
              /\ board'[changes'[i].y][changes'[i].x] # board[changes'[i].y][changes'[i].x]
              /\ changes'[i].color = board'[changes'[i].y][changes'[i].x]
        /\ \A p \in Positions :
              board'[p[2]][p[1]] # board[p[2]][p[1]] => p \in ChangedPositions(changes')
        /\ \A i, j \in 1..Len(changes') :
              (changes'[i].x = changes'[j].x /\ changes'[i].y = changes'[j].y) => i = j]_vars

\* A tick has returned a change list with a death and a birth that leaves some
\* positions out.
C2_Witness ==
    /\ generation >= 1
    /\ Len(changes) >= 2
    /\ Len(changes) < BOARD_WIDTH * BOARD_HEIGHT
    /\ \E i, j \in 1..Len(changes) : changes[i].color = Null /\ changes[j].color # Null

\* C6: a cell that survives a tick (live before, with 2 or 3 live neighbours) holds
\* after the tick the colour it held before, and the tick's changes do not list it.
C6_SurvivorKeepsColor ==
    [][generation' = generation + 1 =>
        \A p \in Positions :
            (board[p[2]][p[1]] # Null /\ LiveNeighborCount(board, p) \in {2, 3}) =>
                /\ board'[p[2]][p[1]] = board[p[2]][p[1]]
                /\ p \notin ChangedPositions(changes')]_vars

\* Two ticks have run and a cell of the pattern is still live with the pattern's
\* colour, next to a cell that a tick changed.
C6_Witness ==
    /\ generation >= 2
    /\ changes # <<>>
    /\ \E p \in Positions :
          /\ board[p[2]][p[1]] = PatternColor(p[1], p[2])
          /\ p \notin ChangedPositions(changes)
          /\ \E q \in Moore(p) : q \in ChangedPositions(changes)

\* ----------------------------------------------------- claims: the resolver

\* The colours held by the live in-bounds neighbours of p on board b.
NeighborColorSet(b, p) == {b[q[2]][q[1]] : q \in Moore(p)} \ {Null}

\* How many in-bounds neighbours of p hold colour c on board b.
Tally(b, p, c) == Cardinality({q \in Moore(p) : b[q[2]][q[1]] = c})

\* The colours with the highest tally among the neighbours of p.
TopColors(b, p) ==
    {c \in NeighborColorSet(b, p) :
        \A d \in NeighborColorSet(b, p) : Tally(b, p, d) <= Tally(b, p, c)}

\* The resolver has answered for the position in query.
Answered == resolved # Null

\* C7: when one colour occurs strictly more often than every other colour among
\* the live neighbours, the resolver returns it, whatever the number of
\* neighbours and the places (hence the enumeration order) they hold.
C7_DominantColor ==
    Answered =>
        \A c \in NeighborColorSet(board, query) :
            (\A d \in NeighborColorSet(board, query) \ {c} :
                Tally(board, query, d) < Tally(board, query, c))
            => resolved = c

\* The resolver has answered for neighbours [A, A, A, B] in which the minority
\* colour is enumerated first.
C7_Witness ==
    /\ Answered
    /\ \E c, d \in Palette :
          /\ c # d
          /\ Tally(board, query, c) = 3
          /\ Tally(board, query, d) = 1
          /\ LiveNeighborCount(board, query) = 4
          /\ getLiveNeighbors(board, query[1], query[2])[1] = d
          /\ resolved = c

\* The rounded channel-wise mean of a set of colours, one sample per colour.
RECURSIVE SetChannelSum(_, _)
SetChannelSum(cs, from) ==
    IF cs = {} THEN 0
    ELSE LET c == CHOOSE e \in cs : TRUE
         IN  parseInt16(c, from) + SetChannelSum(cs \ {c}, from)

MeanOfSet(cs) ==
    <<"#">> \o toHex(MathRound(SetChannelSum(cs, 2), Cardinality(cs)))
            \o toHex(MathRound(SetChannelSum(cs, 4), Cardinality(cs)))
            \o toHex(MathRound(SetChannelSum(cs, 6), Cardinality(cs)))

\* C8 (as claimed): when two or more colours share the highest tally, the resolver
\* returns the rounded channel-wise mean of the tied colours only; colours with a
\* lower tally do not influence the result.
C8_TieMeanOfTiedOnly ==
    (Answered /\ Cardinality(TopColors(board, query)) >= 2)
        => resolved = MeanOfSet(TopColors(board, query))

\* C9 (as claimed): neighbours [#000000, #FFFFFF] resolve to #7F7F7F.
BlackWhiteNeighbors ==
    /\ LiveNeighborCount(board, query) = 2
    /\ NeighborColorSet(board, query) = {Black, White}

C9_BlackWhiteIs7F ==
    (Answered /\ BlackWhiteNeighbors)
        => resolved = <<"#", "7", "F", "7", "F", "7", "F">>

\* C9 (amended): neighbours [#000000, #FFFFFF], in either order, resolve to
\* #808080: each channel's mean 127.5 is rounded half up to 128.
C9_BlackWhiteIs80 ==
    (Answered /\ BlackWhiteNeighbors)
        => resolved = <<"#", "8", "0", "8", "0", "8", "0">>

\* The resolver has answered for one black and one white neighbour, black first.
C9_Witness ==
    /\ Answered
    /\ BlackWhiteNeighbors
    /\ getLiveNeighbors(board, query[1], query[2]) = <<Black, White>>

\* C10: a position with no live in-bounds neighbour resolves to #FFFFFF.
C10_NoNeighborIsWhite ==
    (Answered /\ LiveNeighborCount(board, query) = 0) => resolved = White

\* The resolver has answered for an interior position whose 8 neighbours are all
\* empty.
C10_Witness ==
    /\ Answered
    /\ Cardinality(Moore(query)) = 8
    /\ \A q \in Moore(query) : board[q[2]][q[1]] = Null
    /\ resolved = White

\* ------------------------------------------------ claims: synchronisation

\* Client c has loaded a snapshot and nothing sent to it is still undelivered.
CaughtUp(c) ==
    /\ gameState[c].kind = "state"
    /\ httpFlight[c].kind = "none"
    /\ wsQueue[c] = <<>>

\* C3 (as claimed): once a client has loaded a snapshot and has processed every
\* message the server has sent to it so far, its local board equals the server's.
C3_ObserverMatchesServer ==
    \A c \in Clients : CaughtUp(c) => gameState[c].board = board

\* The step delivers the oldest undelivered message to client c.
Delivers(c) ==
    /\ wsQueue[c] # <<>>
    /\ wsQueue'[c] = Tail(wsQueue[c])

\* C4 (as claimed): no delta or immediate_draw message is delivered to an observer
\* before it has initialised its local state from a snapshot, and no delta with a
\* generation greater than its snapshot's generation is lost to it.
C4_SnapshotBeforeMessages ==
    [][\A c \in Clients :
          Delivers(c) =>
              /\ gameState[c].kind = "state"
              /\ (Head(wsQueue[c]).type = "delta" /\ httpFlight[c].kind = "response")
                    => Head(wsQueue[c]).generation <= httpFlight[c].generation]_vars

\* C5: the generation starts at 0 and after any sequence of draws, queries and n
\* runs of the tick callback it equals n, whether or not the ticks changed
\* anything.
C5_GenerationCountsTicks == generation = ticks /\ generation >= 0

\* Two ticks have run after a draw and a state query, the second tick on a board
\* that the first one emptied.
C5_Witness ==
    /\ ticks = 2
    /\ draws = 1
    /\ changes = <<>>
    /\ held.kind = "held"
    /\ held.generation = 0

\* ------------------------------------------------- claims: the board store

\* C11: a tick on an all-empty board returns an empty change list, leaves the
\* board all-empty and advances the generation by exactly 1, however many ticks
\* ran before it.
C11_Quiescence ==
    [][(ticks' = ticks + 1 /\ board = EmptyBoard) =>
          /\ changes' = <<>>
          /\ board' = EmptyBoard
          /\ generation' = generation + 1]_vars

\* Two ticks in a row have run on the board that nothing was ever drawn on.
C11_Witness ==
    /\ ticks = 2
    /\ generation = 2
    /\ draws = 0
    /\ held = NoSnapshot
    /\ board = EmptyBoard
    /\ changes = <<>>

\* The entry names a position of the grid.
InBoundsCell(cell) == <<cell.x, cell.y>> \in Positions

\* The entries of a cells array that name a position of the grid, in order.
Accepted(cells) == SelectSeq(cells, InBoundsCell)

\* The writes of a sequence of entries, none of them checked.
RECURSIVE WriteAll(_, _)
WriteAll(b, cells) ==
    IF cells = <<>> THEN b
    ELSE WriteAll([b EXCEPT ![Head(cells).y][Head(cells).x] = Head(cells).color],
                  Tail(cells))

\* C12: a draw leaves the board as the writes of the batch's in-bounds entries
\* alone, taken in order, leave it: an out-of-bounds entry has no effect, whatever
\* its place in the batch, and the grid keeps its shape.
C12_BadEntriesSkipped ==
    [][draws' = draws + 1 =>
          /\ board' = WriteAll(board, Accepted(lastCells'))
          /\ DOMAIN board' = Ys
          /\ \A y \in Ys : DOMAIN board'[y] = Xs]_vars

\* A batch of an out-of-bounds entry followed by an in-bounds one has been
\* committed to the empty board, and the in-bounds one is on the board.
C12_Witness ==
    /\ draws = 1
    /\ ticks = 0
    /\ Len(lastCells) = 2
    /\ ~InBoundsCell(lastCells[1])
    /\ InBoundsCell(lastCells[2])
    /\ board = [EmptyBoard EXCEPT ![lastCells[2].y][lastCells[2].x] = lastCells[2].color]

\* C13 (as claimed): the count reported for a draw submission is the number of
\* its cells that were written to the board.
C13_ReplyCountsApplied ==
    drawReply.kind = "json" => drawReply.cellsDrawn = Len(Accepted(lastCells))

\* Entry i of a cells array is the last one that names its position.
LastForItsPosition(cells, i) ==
    \A j \in (i + 1)..Len(cells) : cells[j].x # cells[i].x \/ cells[j].y # cells[i].y

\* C14: right after a draw, and with no tick in between, getFullBoardState shows
\* at every position of the grid that the batch names the colour of the last
\* entry of the batch for that position, whatever the position held before.
C14_DrawThenSnapshot ==
    [][draws' = draws + 1 =>
          \A i \in 1..Len(lastCells') :
              (InBoundsCell(lastCells'[i]) /\ LastForItsPosition(lastCells', i)) =>
                  getFullBoardState(board', generation').board[lastCells'[i].y][lastCells'[i].x]
                      = lastCells'[i].color]_vars

\* A batch that names one position twice, in two colours, has been committed to
\* a board on which earlier draws had coloured that position, and the position
\* holds the second colour.
C14_Witness ==
    /\ draws = 1
    /\ ticks = 0
    /\ Len(lastCells) = 2
    /\ InBoundsCell(lastCells[1])
    /\ ~LastForItsPosition(lastCells, 1)
    /\ lastCells[1].color # lastCells[2].color
    /\ lastCells[2].color # PatternColor(lastCells[2].x, lastCells[2].y)
    /\ \A p \in Positions : board[p[2]][p[1]] # Null
    /\ board[lastCells[2].y][lastCells[2].x] = lastCells[2].color

\* C15 (as claimed): the object returned by getFullBoardState keeps showing the
\* board and the generation it showed when it was returned, whatever draws and
\* ticks follow.
C15_SnapshotImmutable ==
    held.kind = "held" =>
        /\ held.board = held.taken.board
        /\ held.generation = held.taken.generation

\* ------------------------------------------------- claims: the broadcasts

\* The delta message of the tick that the step takes.
TickDelta == [type |-> "delta", changes |-> changes', generation |-> generation']

\* The last message sent to socket c.
LastSent(c) == wsQueue[c][Len(wsQueue[c])]

\* C16: a tick whose change list is empty sends no message to any socket and
\* attempts no send.
C16_QuietTickSendsNothing ==
    [][(ticks' = ticks + 1 /\ changes' = <<>>) =>
          /\ wsQueue' = wsQueue
          /\ sendErrors' = sendErrors]_vars

\* A socket got the delta of the first tick and nothing for the second tick,
\* which changed no cell.
C16_Witness ==
    /\ ticks = 2
    /\ generation = 2
    /\ changes = <<>>
    /\ \E c \in OpenSockets :
          /\ wsQueue[c] # <<>>
          /\ LastSent(c).type = "delta"
          /\ LastSent(c).generation = 1

\* C17: on every tick whose change list is not empty, each socket that is OPEN
\* is the target of exactly one send, of the delta message that carries the
\* tick's change list and the generation the tick reached (the send either puts
\* the message on the socket or throws); a socket that is not OPEN is sent
\* nothing; and the generation is greater than the generation of every delta
\* message sent to the socket before.
C17_OneDeltaPerOpenSocket ==
    [][(ticks' = ticks + 1 /\ changes' # <<>>) =>
          \A c \in Sockets :
              IF serverOpen[c]
              THEN /\ \/ /\ wsQueue'[c] = Append(wsQueue[c], TickDelta)
                         /\ sendErrors'[c] = sendErrors[c]
                      \/ /\ wsQueue'[c] = wsQueue[c]
                         /\ sendErrors'[c] = sendErrors[c] + 1
                   /\ \A i \in 1..Len(wsQueue[c]) :
                         wsQueue[c][i].type = "delta" =>
                             wsQueue[c][i].generation < generation'
              ELSE /\ wsQueue'[c] = wsQueue[c]
                   /\ sendErrors'[c] = sendErrors[c]]_vars

\* Every socket is OPEN and was sent the delta of the first tick and then the
\* delta of the second tick, with that tick's changes.
C17_Witness ==
    /\ ticks = 2
    /\ changes # <<>>
    /\ \A c \in Sockets :
          /\ serverOpen[c]
          /\ Len(wsQueue[c]) >= 2
          /\ wsQueue[c][Len(wsQueue[c]) - 1].type = "delta"
          /\ wsQueue[c][Len(wsQueue[c]) - 1].generation = 1
          /\ LastSent(c) = [type |-> "delta", changes |-> changes, generation |-> 2]

\* C18: when the send of a tick's delta to socket a throws, every other OPEN
\* socket b whose own send does not throw gets that tick's delta, whether b comes
\* before or after a in wss.clients.
C18_ObserverIsolation ==
    [][ticks' = ticks + 1 =>
          \A a, b \in Sockets :
              (/\ a # b
               /\ serverOpen[b]
               /\ sendErrors'[a] > sendErrors[a]
               /\ sendErrors'[b] = sendErrors[b])
              => wsQueue'[b] = Append(wsQueue[b], TickDelta)]_vars

\* Socket a got the immediate_draw of the draw, the send of the first tick's
\* delta to it threw, and socket b, which comes after a, got that delta.
C18_Witness ==
    /\ ticks = 1
    /\ draws = 1
    /\ changes # <<>>
    /\ \E a, b \in OpenSockets :
          /\ a < b
          /\ sendErrors[a] = 1
          /\ Len(wsQueue[a]) = 1
          /\ wsQueue[a][1].type = "immediate_draw"
          /\ wsQueue[b] # <<>>
          /\ LastSent(b) = [type |-> "delta", changes |-> changes, generation |-> 1]

\* C19 (as claimed): once a send to a socket has thrown, in a delta broadcast or
\* in an immediate_draw broadcast, no later broadcast sends to that socket.
C19_FailedObserverDropped ==
    [][\A c \in Sockets :
          sendErrors[c] > 0 =>
              /\ wsQueue'[c] = wsQueue[c]
              /\ sendErrors'[c] = sendErrors[c]]_vars

\* C20 (as claimed): an immediate_draw message carries only cells that were
\* written to the board, that is, cells inside the grid.
C20_EchoesAcceptedOnly ==
    \A c \in Sockets : \A i \in 1..Len(wsQueue[c]) :
        wsQueue[c][i].type = "immediate_draw" =>
            wsQueue[c][i].cells = Accepted(wsQueue[c][i].cells)

\* ----------------------------------------------------- claims: the ingest

\* C21 (as claimed): every draw submission that changes the board is announced in
\* the same handler run, hence before the next tick: each OPEN socket is the
\* target of one send of an immediate_draw message with the submitted cells.
C21_DrawAnnounced ==
    [][(draws' = draws + 1 /\ board' # board) =>
          \A c \in OpenSockets :
              \/ /\ sendErrors'[c] = sendErrors[c] + 1
                 /\ wsQueue'[c] = wsQueue[c]
              \/ /\ sendErrors'[c] = sendErrors[c]
                 /\ Len(wsQueue'[c]) = Len(wsQueue[c]) + 1
                 /\ wsQueue'[c][Len(wsQueue'[c])].type = "immediate_draw"
                 /\ wsQueue'[c][Len(wsQueue'[c])].cells = lastCells']_vars

\* The entry is a cell object with a colour string.
WellFormedEntry(e) == e.kind = "cell" /\ Len(e.color) = 7 /\ e.color[1] = "#"

\* C26 (as claimed): a draw submission with an entry that is no cell object, with
\* a coordinate that is no integer or with a colour that is no colour string
\* leaves the board as it was.
C26_MalformedLeavesBoard ==
    [][(draws' = draws + 1 /\ \E i \in 1..Len(lastCells') : ~WellFormedEntry(lastCells'[i]))
          => board' = board]_vars

\* ------------------------------------------------ claims: the observer's deltas

\* C22 (as claimed): the observer applies a delta only when its generation is the
\* one after the generation of its local state; a delivered delta that is a
\* duplicate, not newer than the local generation or otherwise out of sequence
\* leaves the local board and the local generation as they were.
C22_DeltaInSequenceOnly ==
    [][\A c \in Clients :
          ( /\ Delivers(c)
            /\ gameState[c].kind = "state"
            /\ Head(wsQueue[c]).type = "delta"
            /\ Head(wsQueue[c]).generation # clientGeneration[c] + 1 )
          => /\ gameState'[c] = gameState[c]
             /\ clientGeneration'[c] = clientGeneration[c]]_vars

\* ------------------------------------------------ the tick timer

\* The number of startSimulation/stopSimulation calls explored.
MaxCalls == 3

\* Mutant of alreadyRunning: startSimulation has no guard.
alreadyRunning_never(handle) == FALSE

\* if (simulationInterval) return;
alreadyRunning(handle) == handle # NoTimer

\* The handle setInterval returns: a timer that does not exist yet.
freshTimer == CHOOSE t \in 1..(MaxCalls + 1) : t \notin timers

\* startSimulation(): returns at once when the handle is set, else creates the
\* interval timer and keeps its handle.
StartSimulation ==
    /\ lastCall.n < MaxCalls
    /\ lastCall' = [n |-> lastCall.n + 1, op |-> "start",
                    startsWhileRunning |-> lastCall.startsWhileRunning
                                           + (IF simulationInterval # NoTimer THEN 1 ELSE 0),
                    stopsWhileStopped |-> lastCall.stopsWhileStopped]
    /\ IF alreadyRunning(simulationInterval)
       THEN UNCHANGED <<simulationInterval, timers>>
       ELSE /\ simulationInterval' = freshTimer
            /\ timers' = timers \cup {freshTimer}
    /\ UNCHANGED <<gameVars, drawVars, netVars, clientVars, resolverVars, heartbeat,
                   exiting, tickPc, uiVars>>

\* stopSimulation(): clears the interval timer behind the handle and the handle,
\* then clears the heartbeat timer (clearInterval of a cleared timer does nothing).
StopSimulation ==
    /\ lastCall.n < MaxCalls
    /\ lastCall' = [n |-> lastCall.n + 1, op |-> "stop",
                    startsWhileRunning |-> lastCall.startsWhileRunning,
                    stopsWhileStopped |-> lastCall.stopsWhileStopped
                                          + (IF simulationInterval = NoTimer THEN 1 ELSE 0)]
    /\ IF simulationInterval # NoTimer
       THEN /\ timers' = timers \ {simulationInterval}
            /\ simulationInterval' = NoTimer
       ELSE UNCHANGED <<simulationInterval, timers>>
    /\ heartbeat' = FALSE
    /\ UNCHANGED <<gameVars, drawVars, netVars, clientVars, resolverVars, exiting, tickPc,
                   uiVars>>

\* The server with its timer started and stopped at will, ticking and drawn on.
NextTimer ==
    \/ StartSimulation
    \/ StopSimulation
    \/ Tick
    \/ \E cells \in DrawBatches : DrawHttp(1, cells)

SpecTimer == Init /\ [][NextTimer]_vars

\* ------------------------------------------------ claims: the tick timer

\* The step is a startSimulation call made while the timer runs, or a
\* stopSimulation call made while it is stopped.
RedundantCall ==
    /\ lastCall'.n = lastCall.n + 1
    /\ \/ lastCall'.op = "start" /\ simulationInterval # NoTimer
       \/ lastCall'.op = "stop" /\ simulationInterval = NoTimer

\* C23: after any sequence of startSimulation/stopSimulation calls at most one
\* tick timer exists, and it is the one behind the handle; startSimulation while
\* running and stopSimulation while stopped change nothing.
C23_TimerIdempotent ==
    /\ [](/\ Cardinality(timers) <= 1
          /\ simulationInterval = NoTimer => timers = {}
          /\ simulationInterval # NoTimer => timers = {simulationInterval})
    /\ [][RedundantCall =>
             UNCHANGED <<gameVars, drawVars, netVars, clientVars, resolverVars,
                         simulationInterval, timers, heartbeat, exiting, tickPc,
                         uiVars>>]_vars

C23_Witness ==
    /\ lastCall.n = MaxCalls
    /\ lastCall.startsWhileRunning >= 1
    /\ lastCall.stopsWhileStopped >= 1
    /\ ticks >= 1

\* ------------------------------------------------ the tick, statement by statement

\* Whether the interval callback, at position pc, returns to the event loop:
\* the callback and calculateNextStep are plain functions with no await, so a
\* started tick runs to its end before any other callback or handler.
Yields(pc) == FALSE

\* The event loop may start a callback or a request handler.
Dispatchable == tickPc = "idle" \/ Yields(tickPc)

\* calculateNextStep, first statement: generation++.
TickBegin ==
    /\ Dispatchable
    /\ timers # {}
    /\ generation < MaxGeneration
    /\ generation' = generation + 1
    /\ tickPc' = "advanced"
    /\ UNCHANGED <<board, changes, ticks, replaced, draws, drawVars, netVars, clientVars,
                   resolverVars, simulationInterval, timers, heartbeat, exiting, lastCall, uiVars>>

\* calculateNextStep from its second statement to board = newBoard (or to its
\* throw), then the rest of the interval callback.
TickEnd ==
    /\ tickPc = "advanced"
    /\ IF calculateNextStepThrows(board)
       THEN /\ changes' = <<>>
            /\ UNCHANGED <<board, replaced, wsQueue, sendErrors, activeConnections, held>>
       ELSE /\ \E r \in {calculateNextStep(board, generation - 1)} :
                   /\ board' = r.board
                   /\ changes' = r.changes
                   /\ \E fails \in (IF Len(r.changes) > 0 THEN Throwing ELSE {{}}) :
                         /\ wsQueue' = broadcastDelta(wsQueue, serverOpen, fails,
                                                      [r EXCEPT !.nextGeneration = generation])
                         /\ sendErrors' = countErrors(sendErrors, fails)
                         /\ activeConnections' = activeConnections \ fails
            /\ replaced' = replaced + 1
            /\ held' = IF held.kind = "held" THEN [held EXCEPT !.shared = FALSE] ELSE held
    /\ ticks' = ticks + 1
    /\ tickPc' = "idle"
    /\ UNCHANGED <<generation, draws, lastCells, drawReply, lastTransport, serverOpen,
                   httpFlight, isAlive, lastRound, clientVars, resolverVars, simulationInterval, timers,
                   heartbeat, exiting, lastCall, uiVars>>

\* The server's callbacks as the event loop runs them: ticks in two steps,
\* state queries, draws and new sockets.
NextAtomic ==
    \/ TickBegin
    \/ TickEnd
    \/ Dispatchable /\ TakeSnapshot
    \/ \E p \in RawPayloads : Dispatchable /\ PostDraw(p, 1)
    \/ \E c \in Clients : Dispatchable /\ ServerOnConnection(c)

SpecAtomic == Init /\ [][NextAtomic]_vars

\* ------------------------------------------------ claims: atomicity

\* The step starts a tick, applies a draw, or reads the state.
StartsTick == generation' # generation
AppliesDraw == draws' = draws + 1
ReadsState == held.kind = "none" /\ held'.kind = "held"

\* C24 (as claimed): no tick starts, no draw is applied and no state is read while
\* a tick is between generation++ and board = newBoard; every read sees a board
\* and the generation that belongs to it, never a generation that was advanced
\* for a board that has not been replaced.
C24_MutuallyAtomic ==
    [][/\ (StartsTick \/ AppliesDraw \/ ReadsState) => tickPc = "idle"
       /\ ReadsState => /\ held'.taken.board = board
                        /\ held'.taken.generation = replaced]_vars

\* The same for the ticks that do not throw: nothing is dispatched inside a
\* tick, and a read while no tick has thrown sees the generation of its board.
C24_NoInterleaving ==
    [][/\ (StartsTick \/ AppliesDraw \/ ReadsState) => tickPc = "idle"
       /\ (ReadsState /\ ticks = replaced) =>
              /\ held'.taken.board = board
              /\ held'.taken.generation = replaced]_vars

\* ------------------------------------------------ claims: the tick loop

\* C25: whatever sends throw and whatever draw submissions fail or are malformed,
\* the tick timer is never cleared and the process never set to exit, and, the
\* interval timer firing again and again, the tick callback runs again after
\* every run: the count of its runs, which grows by one, reaches every number up
\* to the generations explored.
C25_TickLoopSurvives ==
    /\ [](timers # {} /\ simulationInterval # NoTimer /\ ~exiting)
    /\ <>(ticks = MaxGeneration)

C25_Witness ==
    /\ ticks = MaxGeneration
    /\ replaced = 0
    /\ draws = 1
    /\ \E c \in Sockets : sendErrors[c] = 1
    /\ timers # {}

\* ------------------------------------------------ the client's reconnection

\* const maxReconnectAttempts = 5
maxReconnectAttempts == 5

\* The most connect() calls of retry timers explored without an onopen between them.
MaxAutoAttempts == 7

\* Math.min(1000 * Math.pow(2, reconnectAttempts.value), 30000)
reconnectDelay(attempts) ==
    IF 1000 * (2 ^ attempts) < 30000 THEN 1000 * (2 ^ attempts) ELSE 30000

\* ws.onerror and ws.onclose of client c's socket, for a connection that was
\* open, that could not be opened or that disconnect() has closed: connected =
\* false, and a retry timer is set while reconnectAttempts is below the maximum.
\* What was in flight is lost.
ClientOnClose(c) ==
    /\ wsState[c] \in {"connecting", "open", "disconnecting"}
    /\ wsState' = [wsState EXCEPT ![c] =
           IF wsState[c] = "disconnecting" THEN "disconnected" ELSE "closed"]
    /\ connected' = [connected EXCEPT ![c] = FALSE]
    /\ retryTimer' = [retryTimer EXCEPT ![c] =
           IF reconnectAttempts[c] < maxReconnectAttempts
           THEN [kind |-> "armed", delay |-> reconnectDelay(reconnectAttempts[c])]
           ELSE NoRetry]
    /\ wsQueue' = [wsQueue EXCEPT ![c] = <<>>]
    /\ UNCHANGED <<gameVars, drawVars, serverOpen, httpFlight, activeConnections, sendErrors,
                   isAlive, lastRound, gameState, clientGeneration, reconnectAttempts, autoAttempts,
                   resolverVars, procVars, uiVars>>

\* disconnect(), called by the page or by onUnmounted: close(1000) on the socket
\* in ws.value, whose close event comes later and whose handlers stay attached;
\* then connected = false and reconnectAttempts = 0. Closing a socket that has
\* closed already does nothing, and a retry timer that is set stays set.
disconnect(c) ==
    /\ wsState[c] \in {"connecting", "open", "closed"}
    /\ wsState' = [wsState EXCEPT ![c] =
           IF wsState[c] = "closed" THEN "disconnected" ELSE "disconnecting"]
    /\ connected' = [connected EXCEPT ![c] = FALSE]
    /\ reconnectAttempts' = [reconnectAttempts EXCEPT ![c] = 0]
    /\ UNCHANGED <<gameVars, drawVars, netVars, gameState, clientGeneration, autoAttempts,
                   retryTimer, resolverVars, procVars, uiVars>>

\* The callback of the retry timer: if (!connected) { reconnectAttempts++; connect(); }
RetryFires(c) ==
    /\ retryTimer[c].kind = "armed"
    /\ autoAttempts[c] < MaxAutoAttempts
    /\ retryTimer' = [retryTimer EXCEPT ![c] = NoRetry]
    /\ IF ~connected[c]
       THEN /\ reconnectAttempts' = [reconnectAttempts EXCEPT ![c] = @ + 1]
            /\ autoAttempts' = [autoAttempts EXCEPT ![c] = @ + 1]
            /\ wsState' = [wsState EXCEPT ![c] = "connecting"]
       ELSE UNCHANGED <<reconnectAttempts, autoAttempts, wsState>>
    /\ UNCHANGED <<gameVars, drawVars, netVars, connected, gameState, clientGeneration,
                   resolverVars, procVars, uiVars>>

\* ws.on('close') and ws.on('error') on the server: the socket leaves wss.clients
\* and activeConnections.
ServerOnClose(c) ==
    /\ serverOpen[c]
    /\ serverOpen' = [serverOpen EXCEPT ![c] = FALSE]
    /\ activeConnections' = activeConnections \ {c}
    /\ wsQueue' = [wsQueue EXCEPT ![c] = <<>>]
    /\ lastRound' = forget(lastRound, c)
    /\ UNCHANGED <<gameVars, drawVars, httpFlight, sendErrors, isAlive, clientVars,
                   resolverVars, procVars, uiVars>>

\* Clients whose connections are accepted, opened, lost and retried, and who
\* disconnect.
NextReconnect ==
    \E c \in Clients :
        \/ ServerOnConnection(c)
        \/ ClientOnOpen(c)
        \/ ServeBoardState(c)
        \/ ClientLoadState(c)
        \/ ClientOnClose(c)
        \/ ServerOnClose(c)
        \/ RetryFires(c)
        \/ disconnect(c)

SpecReconnect == Init /\ [][NextReconnect]_vars

\* ------------------------------------------------ claims: reconnection

\* C27 (as claimed): whenever client c has lost its connection, a reconnection
\* attempt is pending that fires after 3 seconds, for as long as it is
\* disconnected.
C27_RetryEveryThreeSeconds ==
    \A c \in Clients :
        wsState[c] = "closed" =>
            /\ retryTimer[c].kind = "armed"
            /\ retryTimer[c].delay = 3000

\* What the code does instead: the delays double from one second, and after the
\* fifth failed attempt no retry is pending.
C27_BackoffThenGivesUp ==
    \A c \in Clients :
        wsState[c] = "closed" =>
            IF reconnectAttempts[c] < maxReconnectAttempts
            THEN /\ retryTimer[c].kind = "armed"
                 /\ retryTimer[c].delay = reconnectDelay(reconnectAttempts[c])
                 /\ retryTimer[c].delay \in {1000, 2000, 4000, 8000, 16000}
            ELSE retryTimer[c] = NoRetry

\* ------------------------------------------------ claims: the two transports

\* The draw message that carries the cells field p.
DrawOf(p) == [kind |-> "json", type |-> "draw", cells |-> p]

\* The board and the sends are the same whether p arrives in a WebSocket draw
\* message or in the body of POST /api/draw, whichever sends throw.
SameEffect(p) ==
    \A c \in Clients : \A fails \in Throwing :
        LET w == wsDraw(board, wsQueue, serverOpen, fails, DrawOf(p), c)
            h == httpDraw(board, wsQueue, serverOpen, fails, p, c)
        IN  /\ w.board = h.board
            /\ w.wsQueue = h.wsQueue

\* C28 (as claimed): a cells value posted to /api/draw has the effect it has in a
\* WebSocket draw message, the same board mutation and the same immediate_draw
\* broadcast.
C28_SameEffectOnBothTransports == \A p \in RawPayloads : SameEffect(p)

\* What holds: the two handlers agree on every array, well-formed or not, and on
\* a missing cells field.
C28_SameEffectForArrays ==
    \A p \in RawPayloads : p.kind \in {"array", "missing"} => SameEffect(p)

\* ------------------------------------------------ the staging area

\* const BOARD_SIZE = 25
BOARD_SIZE == 25

\* The columns of the first canvas row that the pointer visits.
MaxStageX == 1

\* Where the pointer can be: over a cell of the first row, or right of the grid.
StagePoints == {<<x, 0>> : x \in 0..MaxStageX} \cup {<<BOARD_SIZE, 0>>}

\* playerColor.value
playerColor == Red

\* x >= 0 && x < BOARD_SIZE && y >= 0 && y < BOARD_SIZE
OnCanvasGrid(p) == p[1] >= 0 /\ p[1] < BOARD_SIZE /\ p[2] >= 0 /\ p[2] < BOARD_SIZE

\* stagingCells.value.findIndex(cell => cell.x === x && cell.y === y) >= 0
Staged(cells, p) == \E i \in 1..Len(cells) : cells[i].x = p[1] /\ cells[i].y = p[2]

\* handleCanvasClick: the entry of the clicked cell is spliced out if there is
\* one, else the cell is pushed.
clickedStaging(cells, p) ==
    IF ~OnCanvasGrid(p) THEN cells
    ELSE IF Staged(cells, p)
         THEN SelectSeq(cells, LAMBDA e : ~(e.x = p[1] /\ e.y = p[2]))
         ELSE Append(cells, [x |-> p[1], y |-> p[2], color |-> playerColor])

\* handleMouseMove at p: nothing unless drawing, over the grid and on another
\* cell than the last one; then the cell is remembered, and pushed if unstaged.
mouseMoved(drawing, p) ==
    IF drawing /\ OnCanvasGrid(p) /\ lastDrawnCell # p
    THEN /\ lastDrawnCell' = p
         /\ stagingCells' = IF Staged(stagingCells, p) THEN stagingCells
                            ELSE Append(stagingCells,
                                        [x |-> p[1], y |-> p[2], color |-> playerColor])
    ELSE UNCHANGED <<lastDrawnCell, stagingCells>>

uiFrame == <<gameVars, drawVars, netVars, clientVars, resolverVars, procVars>>

\* mousedown at p: handleMouseDown sets isDrawing and calls handleMouseMove.
MouseDown(p) ==
    /\ press = NoPress
    /\ pendingClick = NoCell
    /\ isDrawing' = TRUE
    /\ mouseMoved(TRUE, p)
    /\ press' = [kind |-> "down", cell |-> p, wasStaged |-> Staged(stagingCells, p),
                 moved |-> FALSE]
    /\ UNCHANGED <<pendingClick, uiFrame>>

\* mousemove to p, with the button up or down.
MouseMove(p) ==
    /\ pendingClick = NoCell
    /\ mouseMoved(isDrawing, p)
    /\ press' = IF press.kind = "down" /\ p # press.cell
                THEN [press EXCEPT !.moved = TRUE] ELSE press
    /\ UNCHANGED <<isDrawing, pendingClick, uiFrame>>

\* mouseup at p over the canvas: handleMouseUp; the browser then owes the canvas
\* a click event at p.
MouseUp(p) ==
    /\ press.kind = "down"
    /\ isDrawing' = FALSE
    /\ lastDrawnCell' = NoCell
    /\ pendingClick' = p
    /\ press' = [press EXCEPT !.kind = "up", !.moved = press.moved \/ p # press.cell]
    /\ UNCHANGED <<stagingCells, uiFrame>>

\* click: handleCanvasClick at the place of the release.
Click ==
    /\ pendingClick # NoCell
    /\ stagingCells' = clickedStaging(stagingCells, pendingClick)
    /\ pendingClick' = NoCell
    /\ press' = NoPress
    /\ UNCHANGED <<isDrawing, lastDrawnCell, uiFrame>>

\* mouseleave with the button down: handleMouseLeave; the release happens off
\* the canvas and no click follows.
MouseLeave ==
    /\ press.kind = "down"
    /\ isDrawing' = FALSE
    /\ lastDrawnCell' = NoCell
    /\ press' = NoPress
    /\ UNCHANGED <<stagingCells, pendingClick, uiFrame>>

\* clearStaging
ClearStaging ==
    /\ press = NoPress
    /\ stagingCells # <<>>
    /\ stagingCells' = <<>>
    /\ UNCHANGED <<isDrawing, lastDrawnCell, pendingClick, press, uiFrame>>

NextStaging ==
    \/ \E p \in StagePoints : MouseDown(p) \/ MouseMove(p) \/ MouseUp(p)
    \/ Click
    \/ MouseLeave
    \/ ClearStaging

SpecStaging == Init /\ [][NextStaging]_vars

\* ------------------------------------------------ claims: the staging area

\* The step is the click event that ends one click on a cell of the grid that
\* was unstaged before the button went down: pressed and released on that cell
\* with no move to another cell in between.
ClickOnUnstaged ==
    /\ pendingClick # NoCell
    /\ pendingClick' = NoCell
    /\ press.kind = "up"
    /\ press.cell = pendingClick
    /\ ~press.moved
    /\ ~press.wasStaged
    /\ OnCanvasGrid(pendingClick)

NoDoubleStaging ==
    \A i, j \in 1..Len(stagingCells) :
        (stagingCells[i].x = stagingCells[j].x /\ stagingCells[i].y = stagingCells[j].y)
            => i = j

\* C29 (as claimed): after mousedown, mouseup and click on an unstaged cell of
\* the grid that cell is in stagingCells with the player's colour, and
\* stagingCells never holds two entries for one position.
C29_ClickStagesCell ==
    /\ [][ClickOnUnstaged =>
             \E i \in 1..Len(stagingCells') :
                 stagingCells'[i] = [x |-> pendingClick[1], y |-> pendingClick[2],
                                     color |-> playerColor]]_vars
    /\ []NoDoubleStaging

\* What holds: such a click leaves the cell unstaged, because the mousedown has
\* staged it and the click removes it again.
C29_ClickLeavesUnstaged ==
    /\ [][ClickOnUnstaged => ~Staged(stagingCells', pendingClick)]_vars
    /\ []NoDoubleStaging

\* ------------------------------------------------ the heartbeat

\* Mutant of markAndPing: ws.isAlive is left as it is.
markAndPing_keepsAlive(alive, open) == alive

\* ws.isAlive = false; ws.ping() for every socket of wss.clients (a socket that
\* is terminated instead has ws.isAlive false already).
markAndPing(alive, open) == [c \in Sockets |-> IF open[c] THEN FALSE ELSE alive[c]]

\* The callback of the heartbeat interval, over wss.clients: a socket that has
\* not answered the last ping is deleted from activeConnections and terminated,
\* every other one is marked and pinged.
Heartbeat ==
    /\ heartbeat
    /\ isAlive' = markAndPing(isAlive, serverOpen)
    /\ serverOpen' = [c \in Sockets |-> serverOpen[c] /\ isAlive[c]]
    /\ lastRound' =
          [parity |-> 1 - lastRound.parity,
           pinged |-> {c \in Sockets : serverOpen[c] /\ isAlive[c]},
           unanswered |-> {c \in Sockets : serverOpen[c] /\ isAlive[c]},
           terminated |-> {c \in Sockets : serverOpen[c] /\ ~isAlive[c]},
           spared |-> {c \in lastRound.pinged \ lastRound.unanswered :
                          serverOpen[c] /\ isAlive[c]}]
    /\ activeConnections' = activeConnections \ {c \in Sockets : serverOpen[c] /\ ~isAlive[c]}
    /\ wsQueue' = [c \in Sockets |-> IF serverOpen[c] /\ ~isAlive[c] THEN <<>> ELSE wsQueue[c]]
    /\ UNCHANGED <<gameVars, drawVars, httpFlight, sendErrors, clientVars, resolverVars,
                   procVars, uiVars>>

\* ws.on('pong'): the peer has answered a ping.
Pong(c) ==
    /\ serverOpen[c]
    /\ ~isAlive[c]
    /\ isAlive' = [isAlive EXCEPT ![c] = TRUE]
    /\ lastRound' = [lastRound EXCEPT !.unanswered = @ \ {c}]
    /\ UNCHANGED <<gameVars, drawVars, serverOpen, wsQueue, httpFlight, activeConnections,
                   sendErrors, clientVars, resolverVars, procVars, uiVars>>

\* Draws with cells left of, right of and below the grid, with fractional
\* coordinates, with string coordinates, with
\* a null entry after a cell, and with a colour that is none next to two
\* colours (the next step throws).
FramePayloads ==
    { [kind |-> "array",
       items |-> <<RawCell(-1, 0, Red), RawCell(0, 0, Black),
                   RawCell(BOARD_WIDTH, 0, Red)>>],
      [kind |-> "array",
       items |-> <<RawFractionX(1, 0, Red), RawCell(0, BOARD_HEIGHT, Red),
                   RawFractionY(0, 1, Red)>>],
      [kind |-> "array", items |-> <<RawStringCoords(1, 1, Red)>>],
      [kind |-> "array", items |-> <<RawCell(0, 0, Red), RawNull>>],
      [kind |-> "array", items |-> <<RawCell(0, 0, NotAColor), RawCell(1, 0, Red),
                                     RawCell(0, 1, Blue)>>] }

\* Everything the server does: ticks, state queries, draws over HTTP with these
\* payloads, a socket that connects, answers pings and closes, and the heartbeat.
NextFrame ==
    \/ Tick
    \/ TakeSnapshot
    \/ Heartbeat
    \/ \E p \in FramePayloads : PostDraw(p, 1)
    \/ ServerOnConnection(1)
    \/ ServerOnClose(1)
    \/ Pong(1)

SpecFrame == Init /\ [][NextFrame]_vars

\* ------------------------------------------------ claims: who writes what

\* Position p is named by an entry of the batch that passes the bounds test.
NamedInBounds(cells, p) ==
    \E i \in 1..Len(cells) :
        /\ cells[i].kind \in {"cell", "stringCoords"}
        /\ cells[i].x = p[1]
        /\ cells[i].y = p[2]

\* C30: the generation changes only in a run of the tick callback, the board
\* only in such a run or in a draw; so a state query, a socket that connects or
\* closes and a heartbeat leave both as they are. A draw leaves the generation
\* and every position that no in-bounds cell of its batch names as they are.
C30_WritersOfBoardAndGeneration ==
    [][/\ generation' # generation => ticks' = ticks + 1
       /\ board' # board => (ticks' = ticks + 1 \/ draws' = draws + 1)
       /\ draws' = draws + 1 =>
             /\ generation' = generation
             /\ \A p \in Positions :
                    board'[p[2]][p[1]] # board[p[2]][p[1]] => NamedInBounds(lastCells', p)]_vars

C30_Witness ==
    /\ ticks >= 1
    /\ draws = 1
    /\ Len(lastCells) = 3
    /\ lastCells[1].x = -1
    /\ board[0][0] = Black
    /\ held.kind = "held"
    /\ serverOpen[1]
    /\ ~isAlive[1]

\* ------------------------------------------------ claims: the grid

\* C31: after any sequence of draws and ticks the board has exactly
\* BOARD_HEIGHT rows of exactly BOARD_WIDTH cells each, whatever coordinates the
\* draws carried: negative, past the end, or fractional.
C31_GridDimensions ==
    /\ DOMAIN board = Ys
    /\ \A y \in Ys : DOMAIN board[y] = Xs

C31_Witness ==
    /\ draws = 1
    /\ ticks >= 1
    /\ replaced = ticks
    /\ Len(lastCells) = 3
    /\ lastCells[3].x = BOARD_WIDTH
    /\ board # EmptyBoard

\* --------------------------------------------- claims: draws between ticks

\* The entry is on the grid and the board holds the colour it wrote.
DrawnCellStands(c) == InBoundsCell(c) /\ board[c.y][c.x] = c.color

\* C32: in the tick that follows a draw, a cell the draw wrote belongs to the
\* board the tick starts from: its neighbours count it as live, it lives on
\* exactly when it has 2 or 3 live neighbours and then keeps the drawn colour,
\* and the change list names it exactly when the tick changed it: a drawn cell
\* without live neighbours is listed once with null.
C32_DrawnCellInNextTick ==
    [][(ticks' = ticks + 1 /\ draws >= 1) =>
        \A i \in 1..Len(lastCells) :
            DrawnCellStands(lastCells[i]) =>
                LET c == lastCells[i]
                    p == <<c.x, c.y>>
                    n == LiveNeighborCount(board, p)
                IN  /\ \A q \in Moore(p) :
                          (board'[q[2]][q[1]] # Null)
                              <=> IF board[q[2]][q[1]] # Null
                                  THEN LiveNeighborCount(board, q) \in {2, 3}
                                  ELSE LiveNeighborCount(board, q) = 3
                    /\ board'[c.y][c.x] = IF n \in {2, 3} THEN c.color ELSE Null
                    /\ (p \in ChangedPositions(changes')) <=> (n \notin {2, 3})
                    /\ n = 0 =>
                          Cardinality({k \in 1..Len(changes') :
                              changes'[k] = [x |-> c.x, y |-> c.y, color |-> Null]}) = 1]_vars

\* The tick after the draw of a column of three has run: the middle cell lives on
\* with the drawn colour, both ends died, and a cell was born on either side of
\* the middle.
C32_Witness ==
    /\ draws = 1
    /\ ticks = 1
    /\ Len(lastCells) = 3
    /\ lastCells[2].color = White
    /\ board[1][1] = White
    /\ board[0][1] = Null
    /\ board[1][0] # Null
    /\ board[1][2] # Null
    /\ Len(changes) = 4

\* ------------------------------------------------- the loops of a tick

\* The most live cells a pattern of the loop check starts with.
MaxLive == 4

\* getLiveNeighbors(x, y) with its two loops run in a given order of the offsets.
liveNeighborsIn(b, x, y, offsets) ==
    LET live(o) == InBounds(x + o[1], y + o[2]) /\ Truthy(b[y + o[2]][x + o[1]])
        kept == SelectSeq(offsets, live)
    IN  [i \in 1..Len(kept) |-> b[y + kept[i][2]][x + kept[i][1]]]

\* Mutant of colorSource: the neighbours are read from the board under construction.
colorSource_underConstruction(b, newBoard) == newBoard

\* The array getLiveNeighbors reads while the loop of step 2 runs: the global
\* board, which is bound to newBoard only after the loop.
colorSource(b, newBoard) == b

\* The loop of step 2 over the positions in a given order: newBoard is filled
\* cell by cell and a change is pushed where it differs from board.
RECURSIVE stepLoop(_, _, _, _, _, _)
stepLoop(b, previousStateMatrix, nextGameBoard, order, offsets, acc) ==
    IF order = <<>> THEN acc
    ELSE LET p == Head(order)
             isAliveInNewState == <<p.x, p.y>> \in nextGameBoard
             wasAliveInOldState == <<p.x, p.y>> \in previousStateMatrix
             v == IF isAliveInNewState
                  THEN IF wasAliveInOldState
                       THEN b[p.y][p.x]
                       ELSE ResolveColors(liveNeighborsIn(colorSource(b, acc.newBoard),
                                                          p.x, p.y, offsets))
                  ELSE Null
         IN  stepLoop(b, previousStateMatrix, nextGameBoard, Tail(order), offsets,
                      [newBoard |-> [acc.newBoard EXCEPT ![p.y][p.x] = v],
                       changes |-> IF v # b[p.y][p.x]
                                   THEN Append(acc.changes,
                                               [x |-> p.x, y |-> p.y, color |-> v])
                                   ELSE acc.changes])

\* calculateNextStep() with the positions visited and the neighbours enumerated
\* in the given orders.
calculateNextStepIn(b, order, offsets) ==
    LET previousStateMatrix == previousState(b)
    IN  stepLoop(b, previousStateMatrix, nextGeneration(previousStateMatrix), order, offsets,
                 [newBoard |-> EmptyBoard, changes |-> <<>>])

\* Every pattern of at most MaxLive live cells, as left by earlier draws.
InitSparse ==
    /\ \E live \in {s \in SUBSET Positions : Cardinality(s) <= MaxLive} :
          board = [y \in Ys |-> [x \in Xs |->
                      IF <<x, y>> \in live THEN PatternColor(x, y) ELSE Null]]
    /\ generation = 0
    /\ changes = <<>>
    /\ ticks = 0
    /\ replaced = 0
    /\ draws = 0
    /\ InitDraws
    /\ InitNet
    /\ InitClients
    /\ InitProc
    /\ InitUi
    /\ query = NoQuery
    /\ resolved = Null

\* Ticks alone on a sparse board.
NextSparse == Tick

SpecSparse == InitSparse /\ [][NextSparse]_vars

\* ------------------------------------------- claims: the loops of a tick

Reversed(s) == [i \in 1..Len(s) |-> s[Len(s) + 1 - i]]

\* The positions column by column.
ColumnOrder ==
    [i \in 1..(BOARD_WIDTH * BOARD_HEIGHT) |->
        [x |-> (i - 1) \div BOARD_HEIGHT, y |-> (i - 1) % BOARD_HEIGHT]]

EvaluationOrders == {ScanOrder, Reversed(ScanOrder), ColumnOrder}
EnumerationOrders == {NeighborOffsets, Reversed(NeighborOffsets)}

SetOf(s) == {s[i] : i \in 1..Len(s)}

\* C33: the board and the set of changes a tick leaves are those the loops of
\* the tick compute from the board before it, in whatever order the positions
\* are visited and the neighbours enumerated; so ticks from equal boards leave
\* equal boards and equal change sets.
C33_TickIsFunctionOfBoard ==
    [][ticks' = ticks + 1 =>
        \A order \in EvaluationOrders : \A offsets \in EnumerationOrders :
            LET r == calculateNextStepIn(board, order, offsets)
            IN  /\ r.newBoard = board'
                /\ SetOf(r.changes) = SetOf(changes')
                /\ Len(r.changes) = Len(changes')]_vars

\* A tick has run in which a cell was born with a colour mixed from its
\* neighbours' colours, next to a cell that the same tick removed.
C33_Witness ==
    /\ ticks >= 1
    /\ \E i, j \in 1..Len(changes) :
          /\ changes[i].color \notin {Null, Red, Blue, White}
          /\ changes[j].color = Null
          /\ <<changes[j].x, changes[j].y>> \in Moore(<<changes[i].x, changes[i].y>>)

\* ------------------------------------------- claims: the resolver in a tick

\* The positions for which the loop of step 2 calls getNewCellColor on board b:
\* alive in the library's next board and 0 in previousStateMatrix.
ResolverCalls(b) == (nextGeneration(previousState(b)) \cap Positions) \ previousState(b)

\* C34: every call of the resolver in a tick is for a dead cell with exactly 3
\* live in-bounds neighbours; the cell gets the colour that 2 or 3 of them hold,
\* or else the rounded channel-wise mean of their 3 distinct colours, which is
\* then both the mean over all neighbours and the mean over the tied colours;
\* the resolver is never called with no neighbour.
C34_ResolverCalledOnThree ==
    [][ticks' = ticks + 1 =>
        \A p \in ResolverCalls(board) :
            LET cs == getLiveNeighbors(board, p[1], p[2])
                majority == {c \in NeighborColorSet(board, p) : Tally(board, p, c) >= 2}
            IN  /\ board[p[2]][p[1]] = Null
                /\ Len(cs) = 3
                /\ LiveNeighborCount(board, p) = 3
                /\ majority # {} => board'[p[2]][p[1]] \in majority
                /\ majority = {} =>
                      /\ Cardinality(NeighborColorSet(board, p)) = 3
                      /\ TopColors(board, p) = NeighborColorSet(board, p)
                      /\ board'[p[2]][p[1]] = MeanOfSet(NeighborColorSet(board, p))
                      /\ averageColors(cs) = MeanOfSet(TopColors(board, p))]_vars

\* A tick has run in which one cell was born with the colour of a majority of
\* its neighbours and another with a mean of three colours.
C34_Witness ==
    /\ ticks >= 1
    /\ \E i, j \in 1..Len(changes) :
          /\ changes[i].color \in {Red, Blue, White}
          /\ changes[j].color \notin {Null, Red, Blue, White}

\* ------------------------------------------------------ painting and ticks

\* A colour written with lower-case digits.
Teal == <<"#", "0", "a", "8", "0", "f", "e">>

\* The batches painted onto a sparse board: one black cell, and one teal cell
\* next to an entry left of the grid.
PaintBatches ==
    { << [x |-> 0, y |-> 0, color |-> Black] >>,
      << [x |-> BOARD_WIDTH - 1, y |-> 1, color |-> Teal],
         [x |-> -1, y |-> 0, color |-> Red] >> }

\* Draws over HTTP and ticks on a sparse board.
NextPaint ==
    \/ Tick
    \/ \E cells \in PaintBatches : DrawHttp(1, cells)

SpecPaint == InitSparse /\ [][NextPaint]_vars

\* -------------------------------------------- claims: well-formed colours

HexChars ==
    {"0", "1", "2", "3", "4", "5", "6", "7", "8", "9",
     "a", "b", "c", "d", "e", "f", "A", "B", "C", "D", "E", "F"}

\* A string of '#' and 6 hex digits; each of its channels is then in 0..255.
WellFormedColor(c) ==
    /\ Len(c) = 7
    /\ c[1] = "#"
    /\ \A i \in 2..7 : c[i] \in HexChars
    /\ \A from \in {2, 4, 6} : parseInt16(c, from) \in 0..255

\* The sum of channel from over the live neighbours of p on board b.
NeighborChannelSum(b, p, from) ==
    LET cs == getLiveNeighbors(b, p[1], p[2]) IN SumChannel(cs, from)

\* C35: while the draws submit only well-formed colours, every cell of the
\* board is null or a well-formed colour; and a cell born in a tick without a
\* majority colour among its n neighbours holds in each channel the neighbours'
\* mean rounded half up, floor((2 * sum + n) / 2n), a value in 0..255.
C35_ColorsStayWellFormed ==
    /\ [](\A p \in Positions :
            board[p[2]][p[1]] = Null \/ WellFormedColor(board[p[2]][p[1]]))
    /\ [][ticks' = ticks + 1 =>
            \A p \in ResolverCalls(board) :
                (\A c \in NeighborColorSet(board, p) : Tally(board, p, c) < 2) =>
                    \A from \in {2, 4, 6} :
                        LET n == LiveNeighborCount(board, p)
                            mean == (2 * NeighborChannelSum(board, p, from) + n) \div (2 * n)
                        IN  /\ mean \in 0..255
                            /\ parseInt16(board'[p[2]][p[1]], from) = mean]_vars

\* After a draw of well-formed colours a tick has written a mean of three
\* colours that has a channel between 1 and 15.
C35_Witness ==
    /\ draws >= 1
    /\ ticks >= 1
    /\ \A i \in 1..Len(lastCells) : WellFormedColor(lastCells[i].color)
    /\ \E p \in Positions :
          /\ board[p[2]][p[1]] \notin {Null, Red, Blue, White, Black, Teal}
          /\ \E from \in {2, 4, 6} : parseInt16(board[p[2]][p[1]], from) \in 1..15

\* ------------------------------------------------ claims: disconnect

\* disconnect() has been called for client c and no connect() since.
Disconnected(c) == wsState[c] \in {"disconnecting", "disconnected"}

\* C36 (as claimed): once disconnect() has been called, the client opens no new
\* WebSocket connection: the close event that disconnect() causes starts no
\* automatic reconnection.
C36_NoReconnectAfterDisconnect ==
    [][\A c \in Clients : Disconnected(c) => Disconnected(c)']_vars

\* What the code does instead: the close event of a socket that disconnect()
\* closed finds reconnectAttempts at 0 and sets the one-second retry timer.
C36_CloseAfterDisconnectRetries ==
    [][\A c \in Clients :
          (wsState[c] = "disconnecting" /\ wsState'[c] = "disconnected") =>
              retryTimer'[c] = [kind |-> "armed", delay |-> 1000]]_vars

\* ------------------------------------------------ claims: the retry counter

\* The step is a connect() call made by the retry timer of client c.
AutomaticAttempt(c) == retryTimer[c].kind = "armed" /\ wsState'[c] = "connecting"

\* The counter of client c goes up by one with each automatic attempt and only
\* then, is 0 after onopen, and a closed connection sets its timer when none is
\* pending.
CounterStep(c) ==
    /\ AutomaticAttempt(c) => reconnectAttempts'[c] = reconnectAttempts[c] + 1
    /\ reconnectAttempts'[c] > reconnectAttempts[c] =>
          (AutomaticAttempt(c) /\ reconnectAttempts'[c] = reconnectAttempts[c] + 1)
    /\ (wsState[c] # "open" /\ wsState'[c] = "open") => reconnectAttempts'[c] = 0
    /\ (retryTimer[c].kind = "none" /\ retryTimer'[c].kind = "armed") =>
          (wsState[c] # wsState'[c] /\ wsState'[c] \in {"closed", "disconnected"})
    /\ retryTimer[c].kind = "armed" => wsState[c] \in {"closed", "disconnected"}

\* C37 (as claimed): reconnectAttempts stays within 0..5, is incremented by 1
\* per automatic attempt and reset by onopen, at most one attempt is pending
\* per closed connection, and after 5 consecutive automatic attempts without an
\* onopen no further automatic attempt is made.
C37_AtMostFiveAttempts ==
    /\ [](\A c \in Clients : reconnectAttempts[c] \in 0..maxReconnectAttempts)
    /\ [][\A c \in Clients : CounterStep(c)]_vars
    /\ [](\A c \in Clients : autoAttempts[c] <= maxReconnectAttempts)

\* What holds: everything but the limit on consecutive attempts.
C37_CounterDiscipline ==
    /\ [](\A c \in Clients : reconnectAttempts[c] \in 0..maxReconnectAttempts)
    /\ [][\A c \in Clients : CounterStep(c)]_vars

\* ------------------------------------------------ the heartbeat rounds

\* Sockets connect, close, answer pings or stay silent, and the heartbeat runs.
NextHeartbeat ==
    \/ Heartbeat
    \/ \E c \in Sockets :
          \/ ServerOnConnection(c)
          \/ ServerOnClose(c)
          \/ Pong(c)

SpecHeartbeat == Init /\ [][NextHeartbeat]_vars

\* ------------------------------------------------ claims: the heartbeat

\* The step is a run of the heartbeat callback.
HeartbeatRound == lastRound'.parity # lastRound.parity

\* C38: at a heartbeat round, a connection that the round before pinged and that
\* has sent no pong since is terminated, and a connection that has answered the
\* last ping, or was never pinged, is not: it is pinged (again).
C38_SilentSocketTerminated ==
    [][HeartbeatRound =>
        \A c \in Sockets :
            serverOpen[c] =>
                IF c \in lastRound.unanswered
                THEN ~serverOpen'[c] /\ c \notin activeConnections'
                ELSE serverOpen'[c] /\ c \in lastRound'.pinged]_vars

\* The last round terminated a socket that had stayed silent and pinged again
\* one that had answered.
C38_Witness ==
    /\ lastRound.terminated # {}
    /\ lastRound.spared # {}
    /\ \A c \in lastRound.terminated : ~serverOpen[c]
    /\ \A c \in lastRound.spared : serverOpen[c]

====
